---- MODULE Spec2Model ----
(***************************************************************************)
(* A model of bevy_eventwork's connection manager (Network<NP>), its       *)
(* per-connection task topology (receive / demux / send), the poll step    *)
(* that joins the background tasks to the host's schedule, and the message *)
(* registry.                                                               *)
(*                                                                         *)
(* The host thread calls the manager's methods one at a time (host_pc      *)
(* records where a method that interleaves with background tasks stands).  *)
(* Background tasks (listener, connect attempts, the three tasks of every  *)
(* connection, the peers' tasks) take their steps at any time.             *)
(*                                                                         *)
(* A task handle is a Box<dyn JoinHandle>; the repository's runtime is     *)
(* bevy's TaskPool, whose handle is Option<Task<()>>: abort() drops the    *)
(* Task, and dropping a Task cancels it.  A handle that is dropped without *)
(* abort() being called is recorded as "dropped", one on which abort() was *)
(* called as "aborted"; neither runs any further.                          *)
(***************************************************************************)
EXTENDS Integers, Sequences, FiniteSets, TLC

\* ------------------------------------------------------------------ bounds
\* Sockets that may be queued or established over a run.
MaxConn == 2
\* connect() calls over a run.
MaxConnect == 1
\* Packets in flight on the outgoing side (queues, wire, peer) at one time.
MaxSend == 1
\* Packets in flight on the incoming side (queues, registry, delivered).
MaxRecv == 2
\* send_request calls over a run.
MaxReq == 2
\* Drains the app may add for one kind tag over a run.
MaxReg == 2

\* ------------------------------------------------------------- constants
\* Message kind tags (NetworkMessage::NAME).  "K1" is registered by this
\* manager and by the peers, "K2" is registered by nobody.
Kinds == {"K1", "K2"}
\* Payloads: "bad" does not deserialize to T, the others do.
Payloads == {"good", "good2", "bad"}

\* The tags of the request type and of its response type
\* (RequestMessage::REQUEST_NAME, ResponseMessage::NAME); registrations share
\* one namespace of tags.
RequestName == "Req"
ResponseName == "Resp"
Tags == Kinds \cup {RequestName, ResponseName}
\* The tags the app registers before its first update: listen_for_message of
\* "K1", listen_for_request_message and listen_for_response_message of the
\* request type.
RegisteredKinds == {"K1", RequestName, ResponseName}
\* Correlation ids a run can allocate, the response payloads, and the
\* threads of the host that may call send_request at the same time.
ReqIds == 0..(MaxReq - 1)
ResponsePayloads == {"R1", "R2"}
Threads == {"t1", "t2"}

\* The ConnectionId of a manager's first connection.
FirstId == 1

\* ConnectionIds a run can assign, and the ids a caller may pass in.  A run
\* that broadcasts may establish one connection more than the other runs.
CastConn == MaxConn + 1
ConnIds == 1..CastConn
ArgIds == 0..CastConn

VARIABLES
    recv_message_map,         \* registry: kind -> Seq of <<ConnectionId, data>>
    established_connections,  \* keys of the connection table
    new_connections,          \* queue of sockets not yet established
    disconnected_connections, \* queue of ConnectionIds
    error_channel,            \* queue of NetworkErrors
    server_handle,            \* Option<listener handle>: {} or {state of its task}
    connection_tasks,         \* side table of connect attempts: set of keys
    connection_task_counts,   \* AtomicU32
    connection_count,         \* u32
    detached_listeners,       \* accept tasks running with no handle held
    connecting,               \* keys of the connect tasks still running
    tasks,                    \* ConnectionId -> [recv, demux, send] task states
    outgoing,                 \* ConnectionId -> outgoing packet queue
    incoming,                 \* ConnectionId -> internal queue recv -> demux
    wire,                     \* ConnectionId -> packets written to the stream
    peer_incoming,            \* ConnectionId -> the peer's recv -> demux queue
    peer_map,                 \* ConnectionId -> the peer's registry (kind -> Seq)
    network_events,           \* NetworkEvents sent by the latest poll step, in order,
                              \* until the host's next call (its systems have read them)
    delivered,                \* NetworkData<T> events sent to the host, in order
    host_pc,                  \* position of the host thread
    ret,                      \* the last call of the host: what it returned (res), the
                              \* path stop() took in it or the tag it registered
                              \* (branch), the ids it removed
    systems,                  \* kind -> number of per-poll drains the app has added
    response_count,           \* ResponseMap.count (AtomicU64)
    response_map,             \* ResponseMap.map: the correlation ids that have a Sender
    response_chan,            \* correlation id -> content of its bounded(1) channel
    handles,                  \* correlation id -> state of the caller's Response
    response_events,          \* NetworkData<ResponseInternal> events not yet handled
    requester,                \* caller thread -> position inside send_request
    peer_requests,            \* Request handles the peer's host holds
    discarded,                \* packets dropped so far: by a demux task for want of a
                              \* registry entry, by a drain for not deserializing,
                              \* by a stop() that cleared the registry
    request_events,           \* NetworkData<RequestInternal> events not yet handled
    requests,                 \* Request handles the host holds
    peer_messages,            \* packets queued for the send_loop of the first
                              \* connection's peer
    stream,                   \* bytes written by that send_loop and not yet read
    reader,                   \* recv_loop of the first connection: where it stands
                              \* and the length it has read
    writer                    \* what that send_loop drained and wrote so far

vars == <<recv_message_map, established_connections, new_connections,
          disconnected_connections, error_channel, server_handle,
          connection_tasks, connection_task_counts, connection_count,
          detached_listeners, connecting, tasks, outgoing, incoming, wire,
          peer_incoming, peer_map, network_events, delivered, host_pc, ret,
          systems, response_count, response_map, response_chan, handles,
          response_events, requester, peer_requests, discarded,
          request_events, requests, peer_messages, stream, reader, writer>>

\* The manager, its tasks and its queues: everything but what the host
\* observes of a call (ret, network_events, delivered) and where it stands.
\* The request/response layer and the app's registrations.
\* The responder's side of the request layer.
responder_vars == <<request_events, requests>>

\* The byte stream of the reference transport.
stream_vars == <<peer_messages, stream, reader, writer>>

request_vars == <<systems, response_count, response_map, response_chan, handles,
                  response_events, requester, peer_requests, responder_vars,
                  stream_vars>>

layer_vars == <<request_vars, discarded>>

manager_state == <<recv_message_map, established_connections, new_connections,
                   disconnected_connections, error_channel, server_handle,
                   connection_tasks, connection_task_counts, connection_count,
                   detached_listeners, connecting, tasks, outgoing, incoming,
                   wire, peer_incoming, peer_map>>

\* ---------------------------------------------------------------- helpers
Ret(op, id, res, branch, removed) ==
    [op |-> op, id |-> id, res |-> res, branch |-> branch, removed |-> removed]

Range(s) == {s[i] : i \in 1..Len(s)}

RECURSIVE SumLen(_, _)
SumLen(f, S) ==
    IF S = {} THEN 0
    ELSE LET x == CHOOSE y \in S : TRUE
         IN  Len(f[x]) + SumLen(f, S \ {x})

\* JoinHandle::abort on a task in state s.
Abort(s) == IF s = "running" THEN "aborted" ELSE s
\* Dropping the handle of a task in state s without abort().
DropHandle(s) == IF s = "running" THEN "dropped" ELSE s

NoTasks == [recv |-> "none", demux |-> "none", send |-> "none"]
SpawnedTasks == [recv |-> "running", demux |-> "running", send |-> "running"]

\* Fault variant of Connection::stop that leaves the send task running.
ConnectionStopKeepsSend(t) ==
    [recv |-> Abort(t.recv), demux |-> Abort(t.demux), send |-> t.send]

\* Connection::stop: aborts the receive, send and demux tasks.
ConnectionStop(t) ==
    [recv |-> Abort(t.recv), demux |-> Abort(t.demux), send |-> Abort(t.send)]
\* Fault variant of dropping a Connection: its tasks are detached and run on.
ConnectionDropDetaches(t) == t

\* A Connection dropped from the table without Connection::stop.
ConnectionDrop(t) ==
    [recv |-> DropHandle(t.recv), demux |-> DropHandle(t.demux),
     send |-> DropHandle(t.send)]

\* Fault variant of the id counter: the next id is taken from the size of
\* the table, so the id of a removed connection comes back.
ReusedConnectionCount(c) == Cardinality(established_connections) + 1

\* server.connection_count += 1.  The counter is a u32; MaxConn keeps every
\* run far below 2^32, where the addition would overflow.
NextConnectionCount(c) == c + 1

\* has_connections()
has_connections == Cardinality(established_connections) > 0

\* Fault variant of the queue test: every queue is taken to accept an item.
QueueOpenAlways(c) == TRUE

\* Whether the outgoing queue of connection c accepts an item: its receiver
\* lives in the send task and is gone once that task has ended.
QueueOpen(c) == tasks[c].send = "running"

OutboundInFlight ==
    SumLen(outgoing, ConnIds) + SumLen(wire, ConnIds)
    + SumLen(peer_incoming, ConnIds)
    + SumLen([c \in ConnIds |-> peer_map[c]["K1"]], ConnIds)

InboundInFlight ==
    SumLen(incoming, ConnIds) + SumLen(recv_message_map, DOMAIN recv_message_map)
    + Len(delivered) + discarded.demux + discarded.drain + discarded.stop

\* ------------------------------------------------------------------- Init
Init ==
    /\ recv_message_map = [k \in RegisteredKinds |-> <<>>]
    /\ established_connections = {}
    /\ new_connections = <<>>
    /\ disconnected_connections = <<>>
    /\ error_channel = <<>>
    /\ server_handle = {}
    /\ connection_tasks = {}
    /\ connection_task_counts = 0
    /\ connection_count = 0
    /\ detached_listeners = 0
    /\ connecting = {}
    /\ tasks = [c \in ConnIds |-> NoTasks]
    /\ outgoing = [c \in ConnIds |-> <<>>]
    /\ incoming = [c \in ConnIds |-> <<>>]
    /\ wire = [c \in ConnIds |-> <<>>]
    /\ peer_incoming = [c \in ConnIds |-> <<>>]
    /\ peer_map = [c \in ConnIds |-> [k \in RegisteredKinds |-> <<>>]]
    /\ network_events = <<>>
    /\ delivered = <<>>
    /\ host_pc = "idle"
    /\ ret = Ret("new", 0, "Ok", "-", {})
    /\ systems = [k \in Tags |-> IF k \in RegisteredKinds THEN 1 ELSE 0]
    /\ response_count = 0
    /\ response_map = {}
    /\ response_chan = [i \in ReqIds |-> "none"]
    /\ handles = [i \in ReqIds |-> "none"]
    /\ response_events = <<>>
    /\ requester = [t \in Threads |-> [pc |-> "idle", id |-> 0]]
    /\ peer_requests = <<>>
    /\ discarded = [demux |-> 0, drain |-> 0, stop |-> 0]
    /\ request_events = <<>>
    /\ requests = <<>>
    /\ peer_messages = <<>>
    /\ stream = <<>>
    /\ reader = [pc |-> "header", length |-> 0]
    /\ writer = [drained |-> <<>>, written |-> <<>>]


\* ------------------------------------------------------- Network::stop
\* Fault variant of the guard of stop(): the body runs with or without a
\* listener handle.
StopTakenAlways == TRUE

\* stop() runs its body only when it holds a listener handle.
StopTaken == server_handle # {}

\* Fault variant of abort(): the handle is let go and its task keeps running.
LeftRunningDetached(handle) == IF "running" \in handle THEN 1 ELSE 0

\* conn.abort() on the handle taken out of server_handle: the number of
\* accept tasks the call leaves running.
LeftRunning(handle) == 0

\* for conn in established_connections.iter() {
\*     let _ = self.disconnected_connections.sender.send(*conn.key()); }
\* Sender::send returns a future; it is never awaited or polled, so it is
\* dropped at once and nothing is put on the queue.
StopDisconnectNotices(queue, table) == queue

\* Fault variant of stop() without established_connections.clear().
StopTableKept(table) == table

\* established_connections.clear()
StopTable(table) == {}

\* Fault variant of stop() without recv_message_map.clear().
StopRegistryKept(map) == map

\* recv_message_map.clear(): every entry of the registry goes, key included.
StopRegistry(map) == [k \in {} |-> <<>>]

\* Fault variant of stop() without the loop that empties new_connections.
StopNewConnectionsKept(queue) == queue

\* while self.new_connections.receiver.try_recv().is_ok() {}
StopNewConnections(queue) == <<>>

\* The Connections that leave the table by being dropped: their handles are
\* dropped without abort(), their queues go with them.
DroppedTasks(gone) ==
    [c \in ConnIds |-> IF c \in gone THEN ConnectionDrop(tasks[c]) ELSE tasks[c]]
ClosedQueues(q, gone) ==
    [c \in ConnIds |-> IF c \in gone THEN <<>> ELSE q[c]]

\* The body of stop() once the handle is taken.
StopBody ==
    /\ detached_listeners' = detached_listeners + LeftRunning(server_handle)
    /\ disconnected_connections' =
           StopDisconnectNotices(disconnected_connections, established_connections)
    /\ established_connections' = StopTable(established_connections)
    /\ tasks' = DroppedTasks(established_connections \ established_connections')
    /\ outgoing' = ClosedQueues(outgoing, established_connections \ established_connections')
    /\ incoming' = ClosedQueues(incoming, established_connections \ established_connections')
    /\ recv_message_map' = StopRegistry(recv_message_map)
    /\ discarded' = [discarded EXCEPT !.stop =
                        @ + SumLen(recv_message_map, DOMAIN recv_message_map)
                          - SumLen(recv_message_map', DOMAIN recv_message_map')]
    /\ new_connections' = StopNewConnections(new_connections)

StopSkipped ==
    UNCHANGED <<detached_listeners, disconnected_connections,
                established_connections, tasks, outgoing, incoming,
                recv_message_map, discarded, new_connections>>

Stop ==
    /\ host_pc = "idle"
    /\ IF StopTaken
       THEN /\ StopBody
            /\ ret' = Ret("stop", 0, "Ok", "stopped",
                          established_connections
                            \ StopTable(established_connections))
       ELSE /\ StopSkipped
            /\ ret' = Ret("stop", 0, "Ok", "noop", {})
    /\ server_handle' = {}
    /\ UNCHANGED <<error_channel, connection_tasks, connection_task_counts,
                   connection_count, connecting, wire, peer_incoming,
                   peer_map, delivered, host_pc>>
    /\ network_events' = <<>>
    /\ UNCHANGED request_vars

\* The accept loops that are running, held by the manager or not.
RunningListeners ==
    detached_listeners + (IF "running" \in server_handle THEN 1 ELSE 0)

\* Fault variant of listen() that does not call stop(): the handle it
\* replaces is dropped, the table and the queues stay as they were.
ListenWithoutStop ==
    /\ host_pc = "idle"
    /\ StopSkipped
    /\ ret' = Ret("listen", 0, "Ok",
                  IF StopTaken THEN "stopped" ELSE "noop", {})
    /\ server_handle' = {"running"}
    /\ UNCHANGED <<error_channel, connection_tasks, connection_task_counts,
                   connection_count, connecting, wire, peer_incoming,
                   peer_map, delivered, host_pc>>
    /\ network_events' = <<>>
    /\ UNCHANGED request_vars

\* ----------------------------------------------------- Network::listen
\* self.stop(); then the accept loop is spawned and its handle kept.
Listen ==
    /\ host_pc = "idle"
    /\ IF StopTaken
       THEN /\ StopBody
            /\ ret' = Ret("listen", 0, "Ok", "stopped",
                          established_connections
                            \ StopTable(established_connections))
       ELSE /\ StopSkipped
            /\ ret' = Ret("listen", 0, "Ok", "noop", {})
    /\ server_handle' = {"running"}
    /\ UNCHANGED <<error_channel, connection_tasks, connection_task_counts,
                   connection_count, connecting, wire, peer_incoming,
                   peer_map, delivered, host_pc>>
    /\ network_events' = <<>>
    /\ UNCHANGED request_vars

\* ---------------------------------------------------- Network::connect
\* fetch_add, then runtime.spawn(...): the task exists before its handle is
\* inserted into connection_tasks.
ConnectAttempt(limit) ==
    /\ host_pc = "idle"
    /\ connection_task_counts < limit
    /\ connection_task_counts' = connection_task_counts + 1
    /\ connecting' = connecting \cup {connection_task_counts}
    /\ host_pc' = "connect"
    /\ ret' = Ret("connect", 0, "Ok", "-", {})
    /\ UNCHANGED <<recv_message_map, established_connections, new_connections,
                   disconnected_connections, error_channel, server_handle,
                   connection_tasks, connection_count, detached_listeners, tasks,
                   outgoing, incoming, wire, peer_incoming, peer_map,
                   delivered>>
    /\ network_events' = <<>>
    /\ UNCHANGED layer_vars

ConnectSpawn == ConnectAttempt(MaxConnect)

\* self.connection_tasks.insert(task_count, handle), task_count being the
\* counter's value before this call's fetch_add.
ConnectInsert ==
    /\ host_pc = "connect"
    /\ connection_tasks' = connection_tasks \cup {connection_task_counts - 1}
    /\ host_pc' = "idle"
    /\ UNCHANGED <<recv_message_map, established_connections, new_connections,
                   disconnected_connections, error_channel, server_handle,
                   connection_task_counts, connection_count, detached_listeners,
                   connecting, tasks, outgoing, incoming, wire,
                   peer_incoming, peer_map, network_events, delivered, ret>>
    /\ UNCHANGED layer_vars

\* The spawned connect task, key k: connect_task succeeds (its socket goes on
\* the new-connection queue) or fails (its error goes on the error queue);
\* then it removes key k from connection_tasks.
\* Fault variant of the connect task: an attempt that failed is left
\* outstanding, to be made again.
ConnectingAfterRetry(k, ok) == IF ok THEN connecting \ {k} ELSE connecting

ConnectingAfter(k, ok) == connecting \ {k}

ConnectTaskDone(k, ok) ==
    /\ k \in connecting
    /\ ok => connection_count + Len(new_connections) < MaxConn
    /\ connecting' = ConnectingAfter(k, ok)
    /\ new_connections' = IF ok THEN Append(new_connections, "socket") ELSE new_connections
    /\ error_channel' = IF ok THEN error_channel ELSE Append(error_channel, "Connection")
    /\ connection_tasks' = connection_tasks \ {k}
    /\ UNCHANGED <<recv_message_map, established_connections,
                   disconnected_connections, server_handle,
                   connection_task_counts, connection_count, detached_listeners, tasks,
                   outgoing, incoming, wire, peer_incoming, peer_map,
                   network_events, delivered, host_pc, ret>>
    /\ UNCHANGED layer_vars

\* ----------------------------------------------- Network::send_message
\* Fault variant of send_message that serializes before it looks the
\* connection up.
SendResultSerializeFirst(id, ser_ok) ==
    IF ~ser_ok THEN "Serialization"
    ELSE IF id \notin established_connections THEN "ConnectionNotFound"
    ELSE IF ~QueueOpen(id) THEN "ChannelClosed"
    ELSE "Ok"

\* ----------------------------------------------- Network::send_message
SendResult(id, ser_ok) ==
    IF id \notin established_connections THEN "ConnectionNotFound"
    ELSE IF ~ser_ok THEN "Serialization"
    ELSE IF ~QueueOpen(id) THEN "ChannelClosed"
    ELSE "Ok"

SendMessageWithin(limit, id, kind, ser_ok) ==
    /\ host_pc = "idle"
    /\ LET r == SendResult(id, ser_ok)
       IN  /\ r = "Ok" => OutboundInFlight < limit
           /\ outgoing' = IF r = "Ok"
                          THEN [outgoing EXCEPT ![id] =
                                   Append(@, [kind |-> kind, data |-> "good"])]
                          ELSE outgoing
           /\ ret' = Ret("send_message", id, r, "-", {})
    /\ UNCHANGED <<recv_message_map, established_connections, new_connections,
                   disconnected_connections, error_channel, server_handle,
                   connection_tasks, connection_task_counts, connection_count,
                   detached_listeners, connecting, tasks, incoming, wire,
                   peer_incoming, peer_map, delivered, host_pc>>
    /\ network_events' = <<>>
    /\ UNCHANGED layer_vars

SendMessage(id, kind, ser_ok) == SendMessageWithin(MaxSend, id, kind, ser_ok)

\* -------------------------------------------------- Network::broadcast
\* Fault variant of broadcast that returns at the first connection whose
\* queue rejects the packet (the table being walked in id order).
BroadcastTargetsUntilClosed(table) ==
    {c \in table : \A d \in table : d <= c => QueueOpen(d)}

\* The connections whose try_send succeeds: every connection of the table
\* is tried, a failed try_send is logged and the walk goes on.
BroadcastTargets(table) == {c \in table : QueueOpen(c)}

\* bincode::serialize(&message).expect(..): a message that does not
\* serialize panics the caller before any queue is touched.
BroadcastWithin(limit, kind, ser_ok) ==
    /\ host_pc = "idle"
    /\ \A c \in BroadcastTargets(established_connections) :
           Len(outgoing[c]) < limit
    /\ IF ser_ok
       THEN /\ outgoing' =
                  [c \in ConnIds |->
                      IF c \in BroadcastTargets(established_connections)
                      THEN Append(outgoing[c], [kind |-> kind, data |-> "good"])
                      ELSE outgoing[c]]
            /\ ret' = Ret("broadcast", 0, "Ok", "-", {})
            /\ host_pc' = host_pc
       ELSE /\ outgoing' = outgoing
            /\ ret' = Ret("broadcast", 0, "panic", "-", {})
            /\ host_pc' = "panicked"
    /\ UNCHANGED <<recv_message_map, established_connections, new_connections,
                   disconnected_connections, error_channel, server_handle,
                   connection_tasks, connection_task_counts, connection_count,
                   detached_listeners, connecting, tasks, incoming, wire,
                   peer_incoming, peer_map, delivered>>
    /\ network_events' = <<>>
    /\ UNCHANGED layer_vars

Broadcast(kind, ser_ok) == BroadcastWithin(MaxSend, kind, ser_ok)

\* ------------------------------------------------- Network::disconnect
DisconnectResult(id) ==
    IF id \in established_connections THEN "Ok" ELSE "ConnectionNotFound"

\* established_connections.remove(&conn_id)
DisconnectTable(table, id) == table \ {id}

Disconnect(id) ==
    /\ host_pc = "idle"
    /\ LET r == DisconnectResult(id)
       IN  /\ ret' = Ret("disconnect", id, r, "-",
                         established_connections
                           \ DisconnectTable(established_connections, id))
           /\ IF r = "Ok"
              THEN /\ established_connections' =
                          DisconnectTable(established_connections, id)
                   /\ tasks' = [tasks EXCEPT ![id] = ConnectionStop(@)]
                   /\ outgoing' = ClosedQueues(outgoing, {id})
                   /\ incoming' = ClosedQueues(incoming, {id})
              ELSE UNCHANGED <<established_connections, tasks, outgoing, incoming>>
    /\ UNCHANGED <<recv_message_map, new_connections, disconnected_connections,
                   error_channel, server_handle, connection_tasks,
                   connection_task_counts, connection_count, detached_listeners,
                   connecting, wire, peer_incoming, peer_map,
                   delivered, host_pc>>
    /\ network_events' = <<>>
    /\ UNCHANGED layer_vars


\* --------------------------------------- handle_new_incoming_connections
\* The ids the first loop gives to the n queued sockets, in queue order:
\* connection_count is incremented, then used.
RECURSIVE AssignedIds(_, _)
AssignedIds(count, n) ==
    IF n = 0 THEN <<>>
    ELSE <<NextConnectionCount(count)>> \o AssignedIds(NextConnectionCount(count), n - 1)

\* Fault variant of the first loop's notifications: one Connected is sent
\* for a whole batch of sockets.
ConnectedEventsFirstOnly(ids) ==
    IF ids = <<>> THEN <<>> ELSE <<[type |-> "Connected", id |-> ids[1]]>>

\* Fault variant of the first loop: no Connected is sent.
ConnectedEventsNone(ids) == <<>>

ConnectedEvents(ids) ==
    [i \in 1..Len(ids) |-> [type |-> "Connected", id |-> ids[i]]]
\* Fault variant of the second loop's notifications: each is sent twice.
DisconnectedEventsTwice(ids) ==
    [i \in 1..(2 * Len(ids)) |->
        [type |-> "Disconnected", id |-> ids[((i - 1) % Len(ids)) + 1]]]

\* Fault variant of the second loop's notifications: none is sent.
DisconnectedEventsNone(ids) == <<>>

DisconnectedEvents(ids) ==
    [i \in 1..Len(ids) |-> [type |-> "Disconnected", id |-> ids[i]]]

\* First loop: every queued socket is given the next ConnectionId, split,
\* its three tasks are spawned, the Connection is inserted and Connected is
\* sent.
PollNew ==
    /\ host_pc = "idle"
    /\ LET ids == AssignedIds(connection_count, Len(new_connections))
           new == Range(ids)
       IN  /\ connection_count' =
                  IF ids = <<>> THEN connection_count ELSE ids[Len(ids)]
           /\ established_connections' = established_connections \cup new
           /\ tasks' = [c \in ConnIds |-> IF c \in new THEN SpawnedTasks ELSE tasks[c]]
           /\ network_events' = ConnectedEvents(ids)
    /\ new_connections' = <<>>
    /\ host_pc' = "poll"
    /\ ret' = Ret("poll", 0, "Ok", "-", {})
    /\ UNCHANGED <<recv_message_map, disconnected_connections, error_channel,
                   server_handle, connection_tasks, connection_task_counts,
                   detached_listeners, connecting, outgoing, incoming, wire,
                   peer_incoming, peer_map, delivered>>
    /\ UNCHANGED layer_vars

\* Second loop: every queued ConnectionId is removed from the table (the
\* Connection is dropped, not stopped) and Disconnected is sent.
PollDisconnected ==
    /\ host_pc = "poll"
    /\ LET gone == Range(disconnected_connections) \cap established_connections
       IN  /\ established_connections' = established_connections \ gone
           /\ tasks' = DroppedTasks(gone)
           /\ outgoing' = ClosedQueues(outgoing, gone)
           /\ incoming' = ClosedQueues(incoming, gone)
    /\ network_events' = network_events \o DisconnectedEvents(disconnected_connections)
    /\ disconnected_connections' = <<>>
    /\ host_pc' = "idle"
    /\ UNCHANGED <<recv_message_map, new_connections, error_channel,
                   server_handle, connection_tasks, connection_task_counts,
                   connection_count, detached_listeners, connecting, wire,
                   peer_incoming, peer_map, delivered, ret>>
    /\ UNCHANGED layer_vars

\* ------------------------------------------------------ register_message
\* The per-poll drain of kind k: every pending entry that deserializes is
\* sent as NetworkData, the others are discarded.
\* Fault variant of the drain that stops at the first entry that does not
\* deserialize.
RECURSIVE DeserializedUntilError(_, _)
DeserializedUntilError(k, q) ==
    IF q = <<>> \/ q[1][2] = "bad" THEN <<>>
    ELSE <<[source |-> q[1][1], kind |-> k, data |-> q[1][2]]>>
           \o DeserializedUntilError(k, Tail(q))

RECURSIVE Deserialized(_, _)
Deserialized(k, q) ==
    IF q = <<>> THEN <<>>
    ELSE (IF q[1][2] # "bad"
          THEN <<[source |-> q[1][1], kind |-> k, data |-> q[1][2]]>>
          ELSE <<>>) \o Deserialized(k, Tail(q))

Drain(k) ==
    /\ host_pc = "idle"
    /\ k \in DOMAIN recv_message_map
    /\ recv_message_map[k] # <<>>
    /\ delivered' = delivered \o Deserialized(k, recv_message_map[k])
    /\ discarded' = [discarded EXCEPT !.drain =
                        @ + Len(recv_message_map[k])
                          - Len(Deserialized(k, recv_message_map[k]))]
    /\ recv_message_map' = [recv_message_map EXCEPT ![k] = <<>>]
    /\ response_events' = IF k = ResponseName
                          THEN response_events \o Deserialized(k, recv_message_map[k])
                          ELSE response_events
    /\ UNCHANGED <<established_connections, new_connections,
                   disconnected_connections, error_channel, server_handle,
                   connection_tasks, connection_task_counts, connection_count,
                   detached_listeners, connecting, tasks, outgoing, incoming,
                   wire, peer_incoming, peer_map, network_events, host_pc, ret>>
    /\ request_events' = IF k = RequestName
                         THEN request_events \o Deserialized(k, recv_message_map[k])
                         ELSE request_events
    /\ UNCHANGED <<systems, response_count, response_map, response_chan,
                   handles, requester, peer_requests, requests>>
    /\ UNCHANGED stream_vars

\* ------------------------------------------------------------ registration
\* listen_for_message, listen_for_request_message and
\* listen_for_response_message: assert that the tag has no registry entry,
\* insert an empty pending queue and add the per-poll drain of the tag.
\* listen_for_response_message installs a fresh ResponseMap before the
\* assertion.
RegistrationEntries ==
    {"listen_for_message", "listen_for_request_message",
     "listen_for_response_message"}

Register(entry, k) ==
    /\ host_pc = "idle"
    /\ systems[k] < MaxReg
    /\ IF entry = "listen_for_response_message"
       THEN response_count' = 0 /\ response_map' = {}
       ELSE UNCHANGED <<response_count, response_map>>
    /\ IF k \in DOMAIN recv_message_map
       THEN /\ UNCHANGED <<recv_message_map, systems>>
            /\ ret' = Ret(entry, 0, "panic", k, {})
            /\ host_pc' = "panicked"
       ELSE /\ recv_message_map' =
                  [t \in DOMAIN recv_message_map \cup {k} |->
                      IF t = k THEN <<>> ELSE recv_message_map[t]]
            /\ systems' = [systems EXCEPT ![k] = @ + 1]
            /\ ret' = Ret(entry, 0, "Ok", k, {})
            /\ host_pc' = host_pc
    /\ network_events' = <<>>
    /\ UNCHANGED <<established_connections, new_connections,
                   disconnected_connections, error_channel, server_handle,
                   connection_tasks, connection_task_counts, connection_count,
                   detached_listeners, connecting, tasks, outgoing, incoming,
                   wire, peer_incoming, peer_map, delivered>>
    /\ UNCHANGED <<response_chan, handles, response_events, requester,
                   peer_requests, discarded>>
    /\ UNCHANGED <<responder_vars, stream_vars>>

\* ------------------------------------------------------- background tasks
\* A running accept loop hands an accepted socket to the manager; limit
\* bounds the sockets of a run.
Accept(limit) ==
    /\ "running" \in server_handle \/ detached_listeners > 0
    /\ connection_count + Len(new_connections) < limit
    /\ new_connections' = Append(new_connections, "socket")
    /\ UNCHANGED <<recv_message_map, established_connections,
                   disconnected_connections, error_channel, server_handle,
                   connection_tasks, connection_task_counts, connection_count,
                   detached_listeners, connecting, tasks, outgoing, incoming,
                   wire, peer_incoming, peer_map, network_events, delivered,
                   host_pc, ret>>
    /\ UNCHANGED layer_vars

AcceptSocket == Accept(MaxConn)
AcceptForCast == Accept(CastConn)

\* receive_task of c: recv_loop decodes a packet and forwards it.
RecvPacket(c, kind, data) ==
    /\ tasks[c].recv = "running"
    /\ InboundInFlight < MaxRecv
    /\ incoming' = [incoming EXCEPT ![c] = Append(@, [kind |-> kind, data |-> data])]
    /\ UNCHANGED <<recv_message_map, established_connections, new_connections,
                   disconnected_connections, error_channel, server_handle,
                   connection_tasks, connection_task_counts, connection_count,
                   detached_listeners, connecting, tasks, outgoing, wire,
                   peer_incoming, peer_map, network_events, delivered, host_pc,
                   ret>>
    /\ UNCHANGED layer_vars

\* receive_task of c: recv_loop returns, the disconnect notice is posted.
RecvLoopExit(c) ==
    /\ tasks[c].recv = "running"
    /\ tasks' = [tasks EXCEPT ![c].recv = "finished"]
    /\ disconnected_connections' = Append(disconnected_connections, c)
    /\ UNCHANGED <<recv_message_map, established_connections, new_connections,
                   error_channel, server_handle, connection_tasks,
                   connection_task_counts, connection_count, detached_listeners,
                   connecting, outgoing, incoming, wire,
                   peer_incoming, peer_map, network_events, delivered, host_pc,
                   ret>>
    /\ UNCHANGED layer_vars

\* Fault variant of map_receive_task that pushes nothing.
DemuxDropping(map, c, packet) == map

\* Fault variant of map_receive_task that puts the packet at the front of
\* the pending queue.
DemuxPushFront(map, c, packet) ==
    IF packet.kind \in DOMAIN map
    THEN [map EXCEPT ![packet.kind] = <<<<c, packet.data>>>> \o @]
    ELSE map

\* Fault variant of map_receive_task that starts a pending queue for a kind
\* that has none.
DemuxBuffering(map, c, packet) ==
    [k \in DOMAIN map \cup {packet.kind} |->
        (IF k \in DOMAIN map THEN map[k] ELSE <<>>)
          \o (IF k = packet.kind THEN <<<<c, packet.data>>>> ELSE <<>>)]

\* map_receive_task: a packet is pushed on its kind's pending queue, or
\* dropped when the kind has no registry entry.
Demux(map, c, packet) ==
    IF packet.kind \in DOMAIN map
    THEN [map EXCEPT ![packet.kind] = Append(@, <<c, packet.data>>)]
    ELSE map

DemuxStep(c) ==
    /\ tasks[c].demux = "running"
    /\ incoming[c] # <<>>
    /\ recv_message_map' = Demux(recv_message_map, c, Head(incoming[c]))
    /\ discarded' = IF recv_message_map' = recv_message_map
                    THEN [discarded EXCEPT !.demux = @ + 1]
                    ELSE discarded
    /\ incoming' = [incoming EXCEPT ![c] = Tail(@)]
    /\ UNCHANGED <<established_connections, new_connections,
                   disconnected_connections, error_channel, server_handle,
                   connection_tasks, connection_task_counts, connection_count,
                   detached_listeners, connecting, tasks, outgoing, wire,
                   peer_incoming, peer_map, network_events, delivered, host_pc,
                   ret>>
    /\ UNCHANGED <<systems, response_count, response_map, response_chan,
                   handles, response_events, requester, peer_requests>>
    /\ UNCHANGED <<responder_vars, stream_vars>>

\* map_receive_task: incoming_rx.recv() fails once the receive task has gone
\* (the sender is dropped) and the queue is empty; the loop ends.
DemuxExit(c) ==
    /\ tasks[c].demux = "running"
    /\ tasks[c].recv # "running"
    /\ incoming[c] = <<>>
    /\ tasks' = [tasks EXCEPT ![c].demux = "finished"]
    /\ UNCHANGED <<recv_message_map, established_connections, new_connections,
                   disconnected_connections, error_channel, server_handle,
                   connection_tasks, connection_task_counts, connection_count,
                   detached_listeners, connecting, outgoing, incoming, wire,
                   peer_incoming, peer_map, network_events, delivered, host_pc,
                   ret>>
    /\ UNCHANGED layer_vars

\* send_task of c: send_loop takes the next packet and writes it to the stream.
\* Fault variant of the send loop's recv(): the newest packet is written.
ReceivedNewest(queue) == queue[Len(queue)]

\* messages.recv().await: the oldest packet of the queue.
Received(queue) == Head(queue)

SendStep(c) ==
    /\ tasks[c].send = "running"
    /\ outgoing[c] # <<>>
    /\ wire' = [wire EXCEPT ![c] = Append(@, Received(outgoing[c]))]
    /\ outgoing' = [outgoing EXCEPT ![c] = Tail(@)]
    /\ UNCHANGED <<recv_message_map, established_connections, new_connections,
                   disconnected_connections, error_channel, server_handle,
                   connection_tasks, connection_task_counts, connection_count,
                   detached_listeners, connecting, tasks, incoming,
                   peer_incoming, peer_map, network_events, delivered, host_pc,
                   ret>>
    /\ UNCHANGED layer_vars

\* send_task of c: the packet taken does not encode; it is logged and the
\* loop goes on with the next one.
SendSkip(c) ==
    /\ tasks[c].send = "running"
    /\ outgoing[c] # <<>>
    /\ outgoing' = [outgoing EXCEPT ![c] = Tail(@)]
    /\ UNCHANGED <<recv_message_map, established_connections, new_connections,
                   disconnected_connections, error_channel, server_handle,
                   connection_tasks, connection_task_counts, connection_count,
                   detached_listeners, connecting, tasks, incoming, wire,
                   peer_incoming, peer_map, network_events, delivered, host_pc,
                   ret>>
    /\ UNCHANGED layer_vars

\* send_task of c: a write fails, send_loop breaks, the queue's receiver is
\* dropped with what it held.
SendFail(c) ==
    /\ tasks[c].send = "running"
    /\ outgoing[c] # <<>>
    /\ tasks' = [tasks EXCEPT ![c].send = "finished"]
    /\ outgoing' = [outgoing EXCEPT ![c] = <<>>]
    /\ UNCHANGED <<recv_message_map, established_connections, new_connections,
                   disconnected_connections, error_channel, server_handle,
                   connection_tasks, connection_task_counts, connection_count,
                   detached_listeners, connecting, incoming, wire,
                   peer_incoming, peer_map, network_events, delivered, host_pc,
                   ret>>
    /\ UNCHANGED layer_vars

\* ------------------------------------------------------------ the peer
\* The peer of connection c runs the same receive and demux tasks on its
\* end of the stream.
PeerRecv(c) ==
    /\ wire[c] # <<>>
    /\ peer_incoming' = [peer_incoming EXCEPT ![c] = Append(@, Head(wire[c]))]
    /\ wire' = [wire EXCEPT ![c] = Tail(@)]
    /\ UNCHANGED <<recv_message_map, established_connections, new_connections,
                   disconnected_connections, error_channel, server_handle,
                   connection_tasks, connection_task_counts, connection_count,
                   detached_listeners, connecting, tasks, outgoing, incoming,
                   peer_map, network_events, delivered, host_pc, ret>>
    /\ UNCHANGED layer_vars

PeerDemux(c) ==
    /\ peer_incoming[c] # <<>>
    /\ peer_map' = [peer_map EXCEPT ![c] = Demux(@, c, Head(peer_incoming[c]))]
    /\ peer_incoming' = [peer_incoming EXCEPT ![c] = Tail(@)]
    /\ UNCHANGED <<recv_message_map, established_connections, new_connections,
                   disconnected_connections, error_channel, server_handle,
                   connection_tasks, connection_task_counts, connection_count,
                   detached_listeners, connecting, tasks, outgoing, incoming,
                   wire, network_events, delivered, host_pc, ret>>
    /\ UNCHANGED layer_vars

\* ------------------------------------------------- requests and responses
\* bincode of the two envelopes: RequestInternal { id, request } and
\* ResponseInternal { response_id, response }.
EncodeRequest(id) == ToString(id) \o ":P"
DecodeRequest(data) == CHOOSE i \in ReqIds : EncodeRequest(i) = data
EncodeResponse(id, r) == ToString(id) \o ":" \o r
DecodeResponse(data) ==
    CHOOSE p \in ReqIds \X ResponsePayloads : EncodeResponse(p[1], p[2]) = data

OtherThreadsIdle(t) == \A u \in Threads \ {t} : requester[u].pc = "idle"

\* Fault variant of the counter: the increment is lost.
FetchAddLost(count) == count

\* count.fetch_add(1, SeqCst): the value the counter holds afterwards.
FetchAdd(count) == count + 1

\* send_request, get_responder: the correlation id is taken from the counter.
\* Systems holding a Requester run side by side, and apart from the systems
\* that hold the manager or the ResponseMap mutably.
GetResponder(t) ==
    /\ host_pc \in {"idle", "requests"}
    /\ requester[t].pc = "idle"
    /\ response_count < MaxReq
    /\ requester' = [requester EXCEPT ![t] = [pc |-> "insert", id |-> response_count]]
    /\ response_count' = FetchAdd(response_count)
    /\ host_pc' = "requests"
    /\ UNCHANGED manager_state
    /\ UNCHANGED <<network_events, delivered, ret, systems, response_map,
                   response_chan, handles, response_events, peer_requests,
                   discarded>>
    /\ UNCHANGED <<responder_vars, stream_vars>>

\* send_request, the rest of it: get_responder makes the bounded(1) channel
\* and inserts its Sender in the map under the id, then send_message of the
\* envelope; the Response is returned on Ok and dropped on Err.
SendRequest(t, client_id, ser_ok) ==
    /\ requester[t].pc = "insert"
    /\ response_map' = response_map \cup {requester[t].id}
    /\ response_chan' = [response_chan EXCEPT ![requester[t].id] = "empty"]
    /\ LET r == SendResult(client_id, ser_ok)
       IN  /\ r = "Ok" => OutboundInFlight < MaxSend
           /\ outgoing' = IF r = "Ok"
                          THEN [outgoing EXCEPT ![client_id] =
                                   Append(@, [kind |-> RequestName,
                                              data |-> EncodeRequest(requester[t].id)])]
                          ELSE outgoing
           /\ handles' = [handles EXCEPT ![requester[t].id] =
                             IF r = "Ok" THEN "held" ELSE "dropped"]
           /\ ret' = Ret("send_request", client_id, r, "-", {})
    /\ requester' = [requester EXCEPT ![t].pc = "idle"]
    /\ host_pc' = IF OtherThreadsIdle(t) THEN "idle" ELSE "requests"
    /\ network_events' = <<>>
    /\ UNCHANGED <<recv_message_map, established_connections, new_connections,
                   disconnected_connections, error_channel, server_handle,
                   connection_tasks, connection_task_counts, connection_count,
                   detached_listeners, connecting, tasks, incoming, wire,
                   peer_incoming, peer_map, delivered>>
    /\ UNCHANGED <<systems, response_count, response_events, peer_requests,
                   discarded>>
    /\ UNCHANGED <<responder_vars, stream_vars>>

\* The peer of connection c: its receive, demux and drain bring the envelope
\* to create_request_handlers, which sends a Request to the peer's host.
PeerRequestHandler(c) ==
    /\ wire[c] # <<>>
    /\ Head(wire[c]).kind = RequestName
    /\ peer_requests' = Append(peer_requests,
                               [source     |-> c,
                                request_id |-> DecodeRequest(Head(wire[c]).data)])
    /\ wire' = [wire EXCEPT ![c] = Tail(@)]
    /\ UNCHANGED <<recv_message_map, established_connections, new_connections,
                   disconnected_connections, error_channel, server_handle,
                   connection_tasks, connection_task_counts, connection_count,
                   detached_listeners, connecting, tasks, outgoing, incoming,
                   peer_incoming, peer_map, network_events, delivered, host_pc,
                   ret>>
    /\ UNCHANGED <<systems, response_count, response_map, response_chan,
                   handles, response_events, requester, discarded>>
    /\ UNCHANGED <<responder_vars, stream_vars>>

\* Fault variant of respond: the response carries another correlation id.
RespondIdOther(request) == (request.request_id + 1) % MaxReq

\* respond: response_id is the Request's request_id.
RespondId(request) == request.request_id

\* The responses the peer's host sends for a Request: one, or one more for a
\* clone of it (a Request is Clone and respond consumes the one it is called
\* on).
Responses(request, rs) ==
    [j \in 1..Len(rs) |->
        [kind |-> ResponseName,
         data |-> EncodeResponse(RespondId(request), rs[j])]]

\* The peer's host responds to a Request it holds; the packets come in on
\* the connection.
Respond(i, rs) ==
    /\ i \in 1..Len(peer_requests)
    /\ tasks[peer_requests[i].source].recv = "running"
    /\ InboundInFlight + Len(rs) <= MaxRecv
    /\ incoming' = [incoming EXCEPT ![peer_requests[i].source] =
                       @ \o Responses(peer_requests[i], rs)]
    /\ peer_requests' = SubSeq(peer_requests, 1, i - 1)
                          \o SubSeq(peer_requests, i + 1, Len(peer_requests))
    /\ UNCHANGED <<recv_message_map, established_connections, new_connections,
                   disconnected_connections, error_channel, server_handle,
                   connection_tasks, connection_task_counts, connection_count,
                   detached_listeners, connecting, tasks, outgoing, wire,
                   peer_incoming, peer_map, network_events, delivered, host_pc,
                   ret>>
    /\ UNCHANGED <<systems, response_count, response_map, response_chan,
                   handles, response_events, requester, discarded>>
    /\ UNCHANGED <<responder_vars, stream_vars>>

\* A response comes in that answers no Request the peer holds.
StrayResponse(c, id, r) ==
    RecvPacket(c, ResponseName, EncodeResponse(id, r))

\* sender.try_send(response): Ok while the Response is alive and the channel
\* has room.
TrySendOk(id, chan) == handles[id] = "held" /\ chan[id] = "empty"

\* create_client_response_handlers: for each event in turn, the slot of its
\* response_id is removed and the payload is sent on it; try_send is
\* expected to succeed.
RECURSIVE HandleResponseEvents(_, _)
HandleResponseEvents(events, st) ==
    IF events = <<>> THEN st
    ELSE LET id == DecodeResponse(Head(events).data)[1]
             r  == DecodeResponse(Head(events).data)[2]
         IN  IF id \notin st.map
             THEN HandleResponseEvents(Tail(events), st)
             ELSE IF TrySendOk(id, st.chan)
             THEN HandleResponseEvents(Tail(events),
                      [map      |-> st.map \ {id},
                       chan     |-> [st.chan EXCEPT ![id] = r],
                       panicked |-> FALSE])
             ELSE [map |-> st.map \ {id}, chan |-> st.chan, panicked |-> TRUE]

HandleResponses ==
    /\ host_pc = "idle"
    /\ response_events # <<>>
    /\ LET st == HandleResponseEvents(response_events,
                     [map |-> response_map, chan |-> response_chan,
                      panicked |-> FALSE])
       IN  /\ response_map' = st.map
           /\ response_chan' = st.chan
           /\ host_pc' = IF st.panicked THEN "panicked" ELSE "idle"
           /\ ret' = Ret("create_client_response_handlers", 0,
                         IF st.panicked THEN "panic" ELSE "Ok", "-", {})
    /\ response_events' = <<>>
    /\ UNCHANGED manager_state
    /\ UNCHANGED <<network_events, delivered, systems, response_count, handles,
                   requester, peer_requests, discarded>>
    /\ UNCHANGED <<responder_vars, stream_vars>>

\* Fault variant of try_recv: the handle is gone after any attempt.
AfterTryRecvGone(handle, content) == "consumed"

\* Response::try_recv: Ok(value) consumes the handle, Err(self) gives it back.
AfterTryRecv(handle, content) ==
    IF content \in ResponsePayloads THEN "consumed" ELSE handle

TryRecv(id) ==
    /\ host_pc = "idle"
    /\ handles[id] = "held"
    /\ handles' = [handles EXCEPT ![id] = AfterTryRecv(@, response_chan[id])]
    /\ response_chan' = IF response_chan[id] \in ResponsePayloads
                        THEN [response_chan EXCEPT ![id] = "none"]
                        ELSE response_chan
    /\ ret' = Ret("try_recv", id,
                  IF response_chan[id] \in ResponsePayloads
                  THEN response_chan[id] ELSE "Err", "-", {})
    /\ UNCHANGED manager_state
    /\ UNCHANGED <<network_events, delivered, host_pc, systems, response_count,
                   response_map, response_events, requester, peer_requests,
                   discarded>>
    /\ UNCHANGED <<responder_vars, stream_vars>>

\* The caller drops a Response it holds.
DropResponse(id) ==
    /\ host_pc = "idle"
    /\ handles[id] = "held"
    /\ handles' = [handles EXCEPT ![id] = "dropped"]
    /\ UNCHANGED manager_state
    /\ UNCHANGED <<network_events, delivered, host_pc, ret, systems,
                   response_count, response_map, response_chan, response_events,
                   requester, peer_requests, discarded>>
    /\ UNCHANGED <<responder_vars, stream_vars>>

\* ------------------------------------------------ the responder's side
\* create_request_handlers: every unread request event whose source is in
\* the table becomes a Request that holds a clone of the connection's
\* outgoing-queue sender; the others are skipped.
\* Fault variant of create_request_handlers: a Request is made for every
\* request, whether or not its source is in the table.
WrappedRequestsAll(events, table) ==
    [i \in 1..Len(events) |->
        [source     |-> events[i].source,
         request_id |-> DecodeRequest(events[i].data)]]

RECURSIVE WrappedRequests(_, _)
WrappedRequests(events, table) ==
    IF events = <<>> THEN <<>>
    ELSE (IF Head(events).source \in table
          THEN <<[source     |-> Head(events).source,
                  request_id |-> DecodeRequest(Head(events).data)]>>
          ELSE <<>>) \o WrappedRequests(Tail(events), table)

CreateRequestHandlers ==
    /\ host_pc = "idle"
    /\ request_events # <<>>
    /\ requests' = requests \o WrappedRequests(request_events, established_connections)
    /\ request_events' = <<>>
    /\ UNCHANGED manager_state
    /\ UNCHANGED <<network_events, delivered, host_pc, ret, systems,
                   response_count, response_map, response_chan, handles,
                   response_events, requester, peer_requests, discarded>>
    /\ UNCHANGED stream_vars

\* Fault variant of respond: the packet is taken to be sent whatever the
\* state of the queue.
RespondResultQueued(request, ser_ok) ==
    IF ~ser_ok THEN "Serialization" ELSE "Ok"

\* respond: the response is serialized, then try_send on the Request's own
\* sender; the table is not consulted.
RespondResult(request, ser_ok) ==
    IF ~ser_ok THEN "Serialization"
    ELSE IF ~QueueOpen(request.source) THEN "SendError"
    ELSE "Ok"

\* The host responds through a Request it holds, which consumes it.
RespondWithin(limit, i, r, ser_ok) ==
    /\ host_pc = "idle"
    /\ i \in 1..Len(requests)
    /\ LET res == RespondResult(requests[i], ser_ok)
       IN  /\ res = "Ok" => OutboundInFlight < limit
           /\ outgoing' = IF res = "Ok"
                          THEN [outgoing EXCEPT ![requests[i].source] =
                                   Append(@, [kind |-> ResponseName,
                                              data |-> EncodeResponse(RespondId(requests[i]), r)])]
                          ELSE outgoing
           /\ ret' = Ret("respond", requests[i].source, res, "-", {})
    /\ requests' = SubSeq(requests, 1, i - 1) \o SubSeq(requests, i + 1, Len(requests))
    /\ network_events' = <<>>
    /\ UNCHANGED <<recv_message_map, established_connections, new_connections,
                   disconnected_connections, error_channel, server_handle,
                   connection_tasks, connection_task_counts, connection_count,
                   detached_listeners, connecting, tasks, incoming, wire,
                   peer_incoming, peer_map, delivered, host_pc>>
    /\ UNCHANGED <<systems, response_count, response_map, response_chan, handles,
                   response_events, requester, peer_requests, discarded,
                   request_events>>
    /\ UNCHANGED stream_vars

RespondTo(i, r, ser_ok) == RespondWithin(MaxSend, i, r, ser_ok)

\* --------------------------------------------- TcpProvider: the byte stream
\* settings.max_packet_length, in bytes.
MaxPacketLength == 17

\* The packets the peer sends: kind and data are byte strings. Serialized,
\* the first two take 17 bytes and the third 18.
TcpPackets == {[kind |-> <<1>>, data |-> <<>>], [kind |-> <<2>>, data |-> <<>>],
               [kind |-> <<1>>, data |-> <<7>>]}

\* The numbers of header bytes a write accepts: some of them, or all eight.
HeaderWrites == {3, 8}

\* u64::to_le_bytes, for the lengths below 2^24 that occur here.
to_le_bytes(n) ==
    [i \in 1..8 |-> IF i = 1 THEN n % 256
                    ELSE IF i = 2 THEN (n \div 256) % 256
                    ELSE IF i = 3 THEN (n \div 65536) % 256
                    ELSE 0]

\* u64::from_le_bytes(...) as usize. A value of 2^24 or more is given as
\* 2^24: it is compared with lengths far below that.
TooLong == 16777216

from_le_bytes(b) ==
    IF \E i \in 4..8 : b[i] # 0 THEN TooLong
    ELSE b[1] + 256 * b[2] + 65536 * b[3]

\* bincode::serialize(&NetworkPacket): each field as its u64 length and its
\* bytes.
Serialize(packet) ==
    to_le_bytes(Len(packet.kind)) \o packet.kind
        \o to_le_bytes(Len(packet.data)) \o packet.data

\* bincode::deserialize::<NetworkPacket>: <<packet>>, or <<>> when the bytes
\* end before a field does. Bytes after the last field are ignored.
Deserialize(bytes) ==
    IF Len(bytes) < 8 THEN <<>>
    ELSE LET kl == from_le_bytes(SubSeq(bytes, 1, 8)) IN
         IF Len(bytes) < kl + 16 THEN <<>>
         ELSE LET dl == from_le_bytes(SubSeq(bytes, kl + 9, kl + 16)) IN
              IF Len(bytes) < kl + 16 + dl THEN <<>>
              ELSE <<[kind |-> SubSeq(bytes, 9, kl + 8),
                      data |-> SubSeq(bytes, kl + 17, kl + 16 + dl)]>>

\* The frame send_loop means to write for a packet.
Frame(packet) == to_le_bytes(Len(Serialize(packet))) \o Serialize(packet)

\* The peer's host queues a packet for the first connection.
PeerQueues(packet) ==
    /\ tasks[FirstId].recv = "running"
    /\ Len(writer.drained) + Len(peer_messages) < MaxRecv
    /\ peer_messages' = Append(peer_messages, packet)
    /\ UNCHANGED <<stream, reader, writer>>
    /\ UNCHANGED manager_state
    /\ UNCHANGED <<network_events, delivered, host_pc, ret, systems,
                   response_count, response_map, response_chan, handles,
                   response_events, requester, peer_requests, discarded,
                   responder_vars>>

\* write_half.write(&len.to_le_bytes()) returned Ok(n): the first n bytes of
\* the header are in the stream.
HeaderWritten(header, n) == SubSeq(header, 1, n)

\* send_loop of the peer, one turn: take a message, serialize it, write its
\* length with write (n bytes are accepted), write it with write_all.
send_loop(n) ==
    /\ peer_messages # <<>>
    /\ LET message == Head(peer_messages)
           encoded == Serialize(message)
           bytes   == HeaderWritten(to_le_bytes(Len(encoded)), n) \o encoded
       IN  /\ stream' = stream \o bytes
           /\ writer' = [drained |-> Append(writer.drained, message),
                         written |-> writer.written \o bytes]
    /\ peer_messages' = Tail(peer_messages)
    /\ UNCHANGED reader
    /\ UNCHANGED manager_state
    /\ UNCHANGED <<network_events, delivered, host_pc, ret, systems,
                   response_count, response_map, response_chan, handles,
                   response_events, requester, peer_requests, discarded,
                   responder_vars>>

\* recv_loop of the first connection breaks: receive_task goes on to post
\* the disconnect notice.
RecvLoopBreaks(why) ==
    /\ reader' = [pc |-> why, length |-> 0]
    /\ tasks' = [tasks EXCEPT ![FirstId].recv = "finished"]
    /\ disconnected_connections' = Append(disconnected_connections, FirstId)
    /\ incoming' = incoming

\* Fault variant of the length test: a frame of exactly max_packet_length
\* bytes is refused too.
ExceedsOrEquals(length) == length >= MaxPacketLength

\* length > settings.max_packet_length
Exceeds(length) == length > MaxPacketLength

\* recv_loop, reading the length: read(&mut buffer[..8]) returned Ok(k).
\* Anything but 8 ends the loop; so does a length above max_packet_length.
recv_header(k) ==
    /\ tasks[FirstId].recv = "running"
    /\ reader.pc = "header"
    /\ k \in 1..8 /\ k <= Len(stream)
    /\ stream' = SubSeq(stream, k + 1, Len(stream))
    /\ IF k # 8 THEN RecvLoopBreaks("short_header")
       ELSE LET length == from_le_bytes(SubSeq(stream, 1, 8)) IN
            IF Exceeds(length) THEN RecvLoopBreaks("oversized")
            ELSE /\ reader' = [pc |-> "body", length |-> length]
                 /\ UNCHANGED <<tasks, disconnected_connections, incoming>>
    /\ UNCHANGED <<recv_message_map, established_connections, new_connections,
                   error_channel, server_handle, connection_tasks,
                   connection_task_counts, connection_count, detached_listeners,
                   connecting, outgoing, wire, peer_incoming, peer_map>>
    /\ UNCHANGED <<network_events, delivered, host_pc, ret, systems,
                   response_count, response_map, response_chan, handles,
                   response_events, requester, peer_requests, discarded,
                   responder_vars, peer_messages, writer>>

\* recv_loop, reading the packet: read_exact(&mut buffer[..length]), then
\* deserialize and forward. A packet that does not deserialize ends the loop.
recv_body ==
    /\ tasks[FirstId].recv = "running"
    /\ reader.pc = "body"
    /\ reader.length <= Len(stream)
    /\ stream' = SubSeq(stream, reader.length + 1, Len(stream))
    /\ LET packet == Deserialize(SubSeq(stream, 1, reader.length)) IN
         IF packet = <<>> THEN RecvLoopBreaks("undecodable")
         ELSE /\ incoming' = [incoming EXCEPT ![FirstId] = Append(@, packet[1])]
              /\ reader' = [pc |-> "header", length |-> 0]
              /\ UNCHANGED <<tasks, disconnected_connections>>
    /\ UNCHANGED <<recv_message_map, established_connections, new_connections,
                   error_channel, server_handle, connection_tasks,
                   connection_task_counts, connection_count, detached_listeners,
                   connecting, outgoing, wire, peer_incoming, peer_map>>
    /\ UNCHANGED <<network_events, delivered, host_pc, ret, systems,
                   response_count, response_map, response_chan, handles,
                   response_events, requester, peer_requests, discarded,
                   responder_vars, peer_messages, writer>>

\* ------------------------------------------------------------------- Next
\* The manager's life cycle: listen, connect, stop, disconnect, the poll
\* step, and the tasks that feed the notification queues.
Next ==
    \/ Listen
    \/ Stop
    \/ ConnectSpawn
    \/ ConnectInsert
    \/ \E id \in ArgIds : Disconnect(id)
    \/ PollNew
    \/ PollDisconnected
    \/ AcceptSocket
    \/ \E k \in 0..(MaxConnect - 1), ok \in BOOLEAN : ConnectTaskDone(k, ok)
    \/ \E c \in ConnIds : RecvLoopExit(c)

Spec == Init /\ [][Next]_vars

\* A listening manager that sends: the life cycle without connect(), with
\* send_message and the send task's end on a failed write.
NextSend ==
    \/ Listen
    \/ Stop
    \/ \E id \in ArgIds, kind \in Kinds, ser_ok \in BOOLEAN : SendMessage(id, kind, ser_ok)
    \/ \E id \in ArgIds : Disconnect(id)
    \/ PollNew
    \/ PollDisconnected
    \/ AcceptSocket
    \/ \E c \in ConnIds : RecvLoopExit(c)
    \/ \E c \in ConnIds : SendFail(c)

SpecSend == Init /\ [][NextSend]_vars

\* The path of the first connection's packets to the peer's registry:
\* send_message and disconnect are called for ConnectionId 1 only.
NextPipe ==
    \/ Listen
    \/ Stop
    \/ \E kind \in Kinds, ser_ok \in BOOLEAN : SendMessage(FirstId, kind, ser_ok)
    \/ Disconnect(FirstId)
    \/ PollNew
    \/ PollDisconnected
    \/ AcceptSocket
    \/ \E c \in ConnIds : RecvLoopExit(c)
    \/ \E c \in ConnIds : SendStep(c)
    \/ \E c \in ConnIds : SendFail(c)
    \/ \E c \in ConnIds : PeerRecv(c)
    \/ \E c \in ConnIds : PeerDemux(c)

\* The runtime schedules every spawned task that can run; the peer's tasks
\* are scheduled by the peer's runtime.
PipeFairness ==
    \A c \in ConnIds :
        /\ WF_vars(SendStep(c))
        /\ WF_vars(PeerRecv(c))
        /\ WF_vars(PeerDemux(c))

SpecPipe == Init /\ [][NextPipe]_vars /\ PipeFairness

\* A listening manager that broadcasts: up to CastConn connections, whose
\* send tasks may end on a failed write.
NextCast ==
    \/ Listen
    \/ \E kind \in Kinds, ser_ok \in BOOLEAN : Broadcast(kind, ser_ok)
    \/ \E id \in ArgIds, kind \in Kinds, ser_ok \in BOOLEAN : SendMessage(id, kind, ser_ok)
    \/ PollNew
    \/ PollDisconnected
    \/ AcceptForCast
    \/ \E c \in ConnIds : SendFail(c)

SpecCast == Init /\ [][NextCast]_vars

\* An app that registers kinds while its manager listens and stops.
RegHostStep ==
    \/ Listen
    \/ Stop
    \/ \E entry \in RegistrationEntries, k \in Tags : Register(entry, k)
    \/ PollNew
    \/ PollDisconnected

RegTaskStep == AcceptSocket

NextReg == RegHostStep \/ RegTaskStep

SpecReg == Init /\ [][NextReg]_vars

\* The inbound path of a listening manager: packets arrive from the peers,
\* are demuxed into the registry and drained to the host.
NextIn ==
    \/ Listen
    \/ PollNew
    \/ PollDisconnected
    \/ \E k \in Tags : Drain(k)
    \/ AcceptSocket
    \/ \E c \in ConnIds, kind \in Kinds, data \in Payloads : RecvPacket(c, kind, data)
    \/ \E c \in ConnIds : DemuxStep(c)

SpecIn == Init /\ [][NextIn]_vars

\* A client whose host sends requests over its connection and polls the
\* Response handles; the peer answers.
\* What a peer answers a Request with: one response, or two that differ.
Answers ==
    {<<r>> : r \in ResponsePayloads}
      \cup {rs \in ResponsePayloads \X ResponsePayloads : rs[1] # rs[2]}

ConnectOnce == connection_task_counts < FirstId /\ ConnectSpawn

NextReq ==
    \/ ConnectOnce
    \/ ConnectInsert
    \/ PollNew
    \/ PollDisconnected
    \/ \E t \in Threads : GetResponder(t)
    \/ \E t \in Threads : SendRequest(t, FirstId, TRUE)
    \/ Drain(ResponseName)
    \/ HandleResponses
    \/ \E id \in ReqIds : TryRecv(id)
    \/ ConnectTaskDone(0, TRUE)
    \/ \E c \in ConnIds : SendStep(c)
    \/ PeerRequestHandler(FirstId)
    \/ \E i \in 1..MaxReq, rs \in Answers : Respond(i, rs)
    \/ \E c \in ConnIds : DemuxStep(c)

SpecReq == Init /\ [][NextReq]_vars

\* The same client, whose host may also drop a Response it holds and whose
\* peer may also send responses nobody asked for.
RespHostStep == \E id \in ReqIds : DropResponse(id)

RespTaskStep == \E id \in ReqIds : StrayResponse(FirstId, id, "R1")

NextResp == NextReq \/ RespHostStep \/ RespTaskStep

SpecResp == Init /\ [][NextResp]_vars

\* A listening manager whose first peer sends requests and whose host
\* answers them, while connections come and go.
NextServe ==
    \/ Listen
    \/ Stop
    \/ Disconnect(FirstId)
    \/ PollNew
    \/ PollDisconnected
    \/ Drain(RequestName)
    \/ CreateRequestHandlers
    \/ \E i \in 1..MaxRecv, ser_ok \in BOOLEAN : RespondTo(i, "R1", ser_ok)
    \/ AcceptSocket
    \/ \E id \in ReqIds : RecvPacket(FirstId, RequestName, EncodeRequest(id))
    \/ RecvLoopExit(FirstId)
    \/ DemuxStep(FirstId)
    \/ SendStep(FirstId)

SpecServe == Init /\ [][NextServe]_vars

\* A client: a manager that connects and never listens.
NextClient ==
    \/ ConnectSpawn
    \/ ConnectInsert
    \/ Stop
    \/ \E id \in ArgIds, kind \in Kinds, ser_ok \in BOOLEAN : SendMessage(id, kind, ser_ok)
    \/ \E id \in ArgIds : Disconnect(id)
    \/ PollNew
    \/ PollDisconnected
    \/ \E k \in 0..(MaxConnect - 1), ok \in BOOLEAN : ConnectTaskDone(k, ok)
    \/ \E c \in ConnIds : RecvLoopExit(c)
    \/ \E c \in ConnIds : SendStep(c)
    \/ \E c \in ConnIds : SendFail(c)

SpecClient == Init /\ [][NextClient]_vars

\* A client that calls connect more than once: every connection of its table
\* was created by connect.
DialLimit == MaxConnect + 1

NextDial ==
    \/ ConnectAttempt(DialLimit)
    \/ ConnectInsert
    \/ PollNew
    \/ PollDisconnected
    \/ \E k \in 0..(DialLimit - 1), ok \in BOOLEAN : ConnectTaskDone(k, ok)
    \/ \E c \in ConnIds : RecvLoopExit(c)

SpecDial == Init /\ [][NextDial]_vars

\* The same client under a host that keeps polling: the host's calls run to
\* completion and the poll system runs again and again.
SpecDialFair ==
    /\ SpecDial
    /\ WF_vars(ConnectInsert)
    /\ WF_vars(PollNew)
    /\ WF_vars(PollDisconnected)

\* A client whose one connection runs over the reference transport: the peer
\* writes frames, the connection's recv_loop reads them.
NextTcp ==
    \/ ConnectOnce
    \/ ConnectInsert
    \/ PollNew
    \/ PollDisconnected
    \/ ConnectTaskDone(0, TRUE)
    \/ \E packet \in TcpPackets : PeerQueues(packet)
    \/ \E n \in HeaderWrites : send_loop(n)
    \/ \E k \in 1..8 : recv_header(k)
    \/ recv_body

SpecTcp == Init /\ [][NextTcp]_vars

\* The manager under a host that keeps polling.
SpecPollFair ==
    /\ Spec
    /\ WF_vars(ConnectInsert)
    /\ WF_vars(PollNew)
    /\ WF_vars(PollDisconnected)

\* A client that enqueues packets on its one connection by send_message,
\* broadcast and respond, up to OrderLimit of them in flight.
OrderLimit == MaxSend + 1

NextOrder ==
    \/ ConnectOnce
    \/ ConnectInsert
    \/ PollNew
    \/ PollDisconnected
    \/ Disconnect(FirstId)
    \/ SendMessageWithin(OrderLimit, FirstId, "K1", TRUE)
    \/ OutboundInFlight < OrderLimit /\ BroadcastWithin(OrderLimit, "K2", TRUE)
    \/ Drain(RequestName)
    \/ CreateRequestHandlers
    \/ \E i \in 1..MaxRecv : RespondWithin(OrderLimit, i, "R1", TRUE)
    \/ ConnectTaskDone(0, TRUE)
    \/ RecvPacket(FirstId, RequestName, EncodeRequest(0))
    \/ DemuxStep(FirstId)
    \/ SendStep(FirstId)
    \/ SendSkip(FirstId)
    \/ SendFail(FirstId)

SpecOrder == Init /\ [][NextOrder]_vars

\* ================================================================ claims
\* A manager call is a step that changes ret; the poll step is the step that
\* takes the host from "idle" to "poll".
Called(op) == ret' # ret /\ ret'.op = op
PollStarts == host_pc = "idle" /\ host_pc' = "poll"

\* The ConnectionIds given out so far: the ids whose tasks were ever spawned.
AssignedSoFar == {c \in ConnIds : tasks[c] # NoTasks}

\* ---------------------------------------------------------------- C1
\* C1: the ConnectionIds a poll step assigns are strictly increasing in
\* assignment order, and an id is never assigned twice: every id a poll
\* step assigns is larger than every id assigned before it, whatever
\* listen(), connect(), stop(), disconnect() and earlier poll steps did.
C1_IdsStrictlyIncreasing ==
    [][ /\ connection_count' >= connection_count
        /\ AssignedSoFar \subseteq AssignedSoFar'
        /\ PollStarts =>
             /\ Len(network_events') = Len(new_connections)
             /\ \A i \in 1..Len(network_events') :
                   /\ network_events'[i].type = "Connected"
                   /\ network_events'[i].id \in established_connections'
                   /\ network_events'[i].id \notin AssignedSoFar
                   /\ network_events'[i].id > connection_count
                   /\ \A d \in AssignedSoFar : d < network_events'[i].id
                   /\ \A j \in 1..Len(network_events') :
                         i < j => network_events'[i].id < network_events'[j].id
      ]_vars

\* Id 2 is in the table after id 1 was dropped from it by stop()'s clear.
C1_Witness ==
    /\ 2 \in established_connections
    /\ 1 \notin established_connections
    /\ tasks[1].recv = "dropped"
    /\ "running" \in server_handle

\* ---------------------------------------------------------------- C2
\* C2: send_message to an id that is not in the table (never established,
\* or removed) returns ConnectionNotFound and enqueues nothing; no outgoing
\* queue ever grows for an id that is not in the table.
C2_SendToAbsentId ==
    [][ /\ (Called("send_message") /\ ret'.id \notin established_connections)
             => (ret'.res = "ConnectionNotFound" /\ outgoing' = outgoing)
        /\ \A c \in ConnIds :
             Len(outgoing'[c]) > Len(outgoing[c]) => c \in established_connections
      ]_vars

\* send_message was refused for an id that disconnect() removed, another
\* connection being in the table.
C2_Witness ==
    /\ ret.op = "send_message"
    /\ ret.res = "ConnectionNotFound"
    /\ ret.id \in ConnIds
    /\ tasks[ret.id].send = "aborted"
    /\ established_connections # {}

\* ---------------------------------------------------------------- C3
\* The packets of a registered kind that connection 1 has accepted and not
\* yet handed to the peer's registry, and the ones the registry holds.
OnTheWay(c, k) ==
    Cardinality({i \in 1..Len(outgoing[c]) : outgoing[c][i].kind = k})
    + Cardinality({i \in 1..Len(wire[c]) : wire[c][i].kind = k})
    + Cardinality({i \in 1..Len(peer_incoming[c]) : peer_incoming[c][i].kind = k})
AtPeer(c, k) == Len(peer_map[c][k])

C4_ClientAddressableAsZero ==
    (has_connections /\ server_handle = {} /\ ret.id = 0
       /\ ret.op \in {"send_message", "disconnect"})
        => ret.res # "ConnectionNotFound"

\* ---------------------------------------------------------------- C5
\* C5: at every moment at most one accept loop is running, and the manager
\* holds zero or one listener handle; a listen() on a listening manager
\* ends the previous accept loop before it starts the next.
C5_AtMostOneListener ==
    /\ Cardinality(server_handle) <= 1
    /\ RunningListeners <= 1
    /\ detached_listeners = 0

\* listen() was called on a manager that held a listener handle and had a
\* connection; one accept loop runs.
C5_Witness ==
    /\ ret.op = "listen"
    /\ ret.branch = "stopped"
    /\ ret.removed # {}
    /\ RunningListeners = 1

\* ---------------------------------------------------------------- C6
\* C6 as the specification words it: after any stop(), listening or not,
\* the table is empty and has_connections() is false.
C6_TableEmptyAfterAnyStop ==
    ret.op = "stop" => (established_connections = {} /\ ~has_connections)

\* C6: after a stop() that found a listener handle, the table is empty and
\* has_connections() is false; after a stop() that found none, the table
\* holds what it held before the call.
C6_TableEmptyAfterStopOfListener ==
    [][ Called("stop") =>
          IF server_handle # {}
          THEN established_connections' = {} /\ ~has_connections'
          ELSE established_connections' = established_connections
      ]_vars

\* stop() found a listener handle and emptied a table that held a connection.
C6_Witness ==
    /\ ret.op = "stop"
    /\ ret.branch = "stopped"
    /\ ret.removed # {}
    /\ established_connections = {}

\* ---------------------------------------------------------------- C7
\* C7: a stop() called while the manager holds no listener handle is a
\* no-op: it leaves the table, the registry, the new-connection queue, the
\* disconnect queue and the error queue (and every task and counter) as
\* they were; and after any stop() no handle is held, so a second stop()
\* in a row is such a no-op.
C7_StopWithoutListenerIsNoOp ==
    /\ [][ (Called("stop") /\ server_handle = {})
              => /\ ret'.branch = "noop"
                 /\ UNCHANGED manager_state
         ]_vars
    /\ [](ret.op = "stop" => server_handle = {})

\* stop() took its no-op path on a manager that has a connection in the
\* table and a disconnect notice queued.
C7_Witness ==
    /\ ret.op = "stop"
    /\ ret.branch = "noop"
    /\ established_connections # {}
    /\ disconnected_connections # <<>>

\* ---------------------------------------------------------------- C8
\* C8: a stop() called while listening with connections in the table puts
\* a disconnect notification for each of them on the disconnect queue.
C8_StopQueuesDisconnects ==
    (ret.op = "stop" /\ ret.branch = "stopped")
        => ret.removed \subseteq Range(disconnected_connections)

\* ---------------------------------------------------------------- C9
\* C9: a listen() on a manager that is already listening performs a full
\* stop(): every connection of the table is removed, so right after the
\* call the table is empty, and exactly one accept loop is running, whose
\* handle the manager holds.
C9_ListenWhileListeningStops ==
    [][ (Called("listen") /\ server_handle # {})
          => /\ ret'.removed = established_connections
             /\ established_connections' = {}
             /\ ~has_connections'
             /\ new_connections' = <<>>
             /\ server_handle' = {"running"}
             /\ RunningListeners' = 1
      ]_vars

\* listen() was called on a listening manager with a full table, which it
\* emptied.
C9_Witness ==
    /\ ret.op = "listen"
    /\ ret.branch = "stopped"
    /\ ret.removed = 1..MaxConn
    /\ established_connections = {}
    /\ server_handle = {"running"}

\* --------------------------------------------------------------- C10
\* C10: disconnect(id) with id in the table removes id from the table,
\* aborts its receive, demux and send tasks, returns Ok and touches no
\* other connection; disconnect(id) with id absent returns
\* ConnectionNotFound and changes nothing.
C10_Disconnect ==
    [][ Called("disconnect") =>
          IF ret'.id \in established_connections
          THEN /\ ret'.res = "Ok"
               /\ established_connections' = established_connections \ {ret'.id}
               /\ tasks'[ret'.id] = [recv  |-> Abort(tasks[ret'.id].recv),
                                     demux |-> Abort(tasks[ret'.id].demux),
                                     send  |-> Abort(tasks[ret'.id].send)]
               /\ \A x \in {"recv", "demux", "send"} : tasks'[ret'.id][x] # "running"
               /\ \A c \in ConnIds \ {ret'.id} :
                     /\ tasks'[c] = tasks[c]
                     /\ outgoing'[c] = outgoing[c]
                     /\ incoming'[c] = incoming[c]
          ELSE /\ ret'.res = "ConnectionNotFound"
               /\ UNCHANGED manager_state
      ]_vars

\* A second disconnect of the id a disconnect removed was refused, another
\* connection being in the table with its tasks running.
C10_Witness ==
    /\ ret.op = "disconnect"
    /\ ret.res = "ConnectionNotFound"
    /\ ret.id \in ConnIds
    /\ tasks[ret.id] = [recv |-> "aborted", demux |-> "aborted", send |-> "aborted"]
    /\ \E c \in established_connections : tasks[c] = SpawnedTasks

C13_OneDrainPerTag ==
    \A k \in Tags : systems[k] <= 1

\* A step of connection c's demux task: the head of its inbound channel is
\* taken while the connection stays in the table with its tasks untouched.
DemuxTakes(c) ==
    /\ incoming[c] # <<>>
    /\ incoming'[c] = Tail(incoming[c])
    /\ tasks' = tasks
    /\ established_connections' = established_connections

\* C14: a packet whose kind has no registry entry when the demux task
\* processes it is dropped: no pending queue changes, nothing is delivered, the
\* demux task keeps running with the following packets still in its channel,
\* and a kind that is never registered is never pending nor delivered.
C14_UnregisteredKindDropped ==
    /\ [][\A c \in ConnIds :
            (DemuxTakes(c) /\ Head(incoming[c]).kind \notin DOMAIN recv_message_map)
            => /\ recv_message_map' = recv_message_map
               /\ delivered' = delivered
               /\ tasks'[c].demux = "running"]_vars
    /\ [](/\ DOMAIN recv_message_map \subseteq RegisteredKinds
          /\ \A i \in 1..Len(delivered) : delivered[i].kind \in RegisteredKinds)

C14_Witness ==
    /\ connection_count = FirstId
    /\ discarded.demux = 1
    /\ tasks[FirstId].demux = "running"
    /\ incoming[FirstId] = <<>>
    /\ "K1" \in DOMAIN recv_message_map
    /\ recv_message_map["K1"] = <<<<FirstId, "good">>>>

RECURSIVE IsSubsequence(_, _)
IsSubsequence(a, b) ==
    IF a = <<>> THEN TRUE
    ELSE IF b = <<>> THEN FALSE
    ELSE IF Head(a) = Head(b) THEN IsSubsequence(Tail(a), Tail(b))
    ELSE IsSubsequence(a, Tail(b))

RECURSIVE DeliveredFrom(_, _, _)
DeliveredFrom(c, k, d) ==
    IF d = <<>> THEN <<>>
    ELSE (IF d[1].source = c /\ d[1].kind = k THEN <<d[1].data>> ELSE <<>>)
           \o DeliveredFrom(c, k, Tail(d))

RECURSIVE PendingFrom(_, _)
PendingFrom(c, q) ==
    IF q = <<>> THEN <<>>
    ELSE (IF q[1][1] = c /\ q[1][2] # "bad" THEN <<q[1][2]>> ELSE <<>>)
           \o PendingFrom(c, Tail(q))

RECURSIVE ReceivedOf(_, _)
ReceivedOf(k, ch) ==
    IF ch = <<>> THEN <<>>
    ELSE (IF ch[1].kind = k /\ ch[1].data # "bad" THEN <<ch[1].data>> ELSE <<>>)
           \o ReceivedOf(k, Tail(ch))

\* The deserializable payloads of kind k that arrived on connection c and
\* were not lost, oldest first: those delivered to the host, then those in
\* the kind's pending queue, then those still in the connection's channel.
Line(c, k) ==
    DeliveredFrom(c, k, delivered)
      \o (IF k \in DOMAIN recv_message_map
          THEN PendingFrom(c, recv_message_map[k]) ELSE <<>>)
      \o ReceivedOf(k, incoming[c])

\* C15: per connection and kind, messages reach the host in the order their
\* packets arrived: what was delivered stays delivered in place, and on every
\* step the line of arrived payloads (delivered, pending, in channel) keeps
\* its order, changing only by a new arrival at its end or by losing entries.
C15_DeliveryInArrivalOrder ==
    [][/\ Len(delivered') >= Len(delivered)
       /\ SubSeq(delivered', 1, Len(delivered)) = delivered
       /\ \A c \in ConnIds, k \in Kinds :
            \/ IsSubsequence(Line(c, k)', Line(c, k))
            \/ /\ Line(c, k)' # <<>>
               /\ SubSeq(Line(c, k)', 1, Len(Line(c, k)') - 1) = Line(c, k)
               /\ incoming'[c] # <<>>
               /\ ReceivedOf(k, incoming'[c]) # ReceivedOf(k, incoming[c])]_vars

C15_Witness ==
    /\ delivered = <<[source |-> FirstId, kind |-> "K1", data |-> "good"],
                     [source |-> FirstId, kind |-> "K1", data |-> "good2"]>>
    /\ discarded = [demux |-> 0, drain |-> 0, stop |-> 0]

\* A step of a per-poll drain: something is delivered or discarded by it.
DrainRuns == delivered' # delivered \/ discarded'.drain # discarded.drain

DeserializesToT(entry) == entry[2] # "bad"

\* The NetworkData events a drain of queue q of kind k has to send.
DrainOutput(k, q) ==
    [i \in 1..Len(SelectSeq(q, DeserializesToT)) |->
        [source |-> SelectSeq(q, DeserializesToT)[i][1],
         kind   |-> k,
         data   |-> SelectSeq(q, DeserializesToT)[i][2]]]

\* C16: a per-poll drain of a kind's pending queue discards the entries that
\* do not deserialize and goes on, delivers the others once each with their
\* source id in queue order, and leaves the queue empty.
C16_DrainDeliversGoodEntries ==
    [][DrainRuns =>
        \E k \in DOMAIN recv_message_map :
            /\ recv_message_map[k] # <<>>
            /\ recv_message_map' = [recv_message_map EXCEPT ![k] = <<>>]
            /\ delivered' = delivered \o DrainOutput(k, recv_message_map[k])
            /\ discarded'.drain = discarded.drain + Len(recv_message_map[k])
                                    - Len(DrainOutput(k, recv_message_map[k]))
            /\ host_pc' = host_pc]_vars

C16_Witness ==
    /\ delivered = <<[source |-> FirstId, kind |-> "K1", data |-> "good"]>>
    /\ discarded = [demux |-> 0, drain |-> 1, stop |-> 0]
    /\ recv_message_map["K1"] = <<>>

\* A run of create_client_response_handlers: it reads the unread events.
HandlerRuns == response_events # <<>> /\ response_events' = <<>>

\* The payload of the first event of a batch that carries correlation id.
RECURSIVE FirstFor(_, _)
FirstFor(id, events) ==
    IF events = <<>> THEN "none"
    ELSE IF DecodeResponse(Head(events).data)[1] = id
         THEN DecodeResponse(Head(events).data)[2]
         ELSE FirstFor(id, Tail(events))

\* The peer answers a Request: it leaves the peer's host.
PeerResponds == Len(peer_requests') < Len(peer_requests)

\* C17: round trip.  The responses the peer sends for a Request carry its
\* correlation id; when a batch of responses is processed, a pending id gets
\* the payload of the first response that carries it and leaves the pending
\* map, an id that is not pending gets nothing (a second response with the
\* same id is dropped); the payload then stays in the slot until try_recv
\* on the handle yields exactly it.
C17_RoundTrip ==
    [][/\ PeerResponds =>
            \E i \in 1..Len(peer_requests) :
                LET src == peer_requests[i].source
                IN  /\ Len(incoming'[src]) > Len(incoming[src])
                    /\ \A j \in (Len(incoming[src]) + 1)..Len(incoming'[src]) :
                          /\ incoming'[src][j].kind = ResponseName
                          /\ DecodeResponse(incoming'[src][j].data)[1]
                               = peer_requests[i].request_id
       /\ \A id \in ReqIds :
            /\ (HandlerRuns /\ id \in response_map /\ handles[id] = "held"
                  /\ FirstFor(id, response_events) # "none")
               => /\ response_chan'[id] = FirstFor(id, response_events)
                  /\ id \notin response_map'
            /\ (HandlerRuns /\ id \notin response_map)
               => /\ response_chan'[id] = response_chan[id]
                  /\ id \notin response_map'
            /\ response_chan[id] \in ResponsePayloads
               => \/ response_chan'[id] = response_chan[id] /\ handles'[id] = "held"
                  \/ /\ Called("try_recv")
                     /\ ret'.id = id
                     /\ ret'.res = response_chan[id]
                     /\ handles'[id] = "consumed"]_vars

C17_Witness ==
    /\ ret = Ret("try_recv", 0, "R2", "-", {})
    /\ handles[0] = "consumed"
    /\ response_map = {}
    /\ response_events = <<>>
    /\ delivered = <<[source |-> FirstId, kind |-> ResponseName, data |-> EncodeResponse(0, "R2")],
                     [source |-> FirstId, kind |-> ResponseName, data |-> EncodeResponse(0, "R1")]>>

\* Thread t enters send_request and takes its correlation id.
TakesId(t) == requester[t].pc = "idle" /\ requester'[t].pc = "insert"

\* The payloads of the events of a batch that carry correlation id.
RECURSIVE PayloadsFor(_, _)
PayloadsFor(id, events) ==
    IF events = <<>> THEN {}
    ELSE (IF DecodeResponse(Head(events).data)[1] = id
          THEN {DecodeResponse(Head(events).data)[2]} ELSE {})
           \cup PayloadsFor(id, Tail(events))

\* C18: correlation ids come from one counter, the next call gets the next
\* id: a call that takes an id takes the counter's value and leaves the
\* counter one higher, two calls under way at once hold different ids, and an
\* id that a call holds was never given out before.  A handle's slot is only
\* ever filled by a response that carries the handle's own id, whatever the
\* order the responses arrive in.
C18_IdsAndOutOfOrderResponses ==
    /\ [][/\ \A t \in Threads :
               TakesId(t) => /\ requester'[t].id = response_count
                             /\ response_count' = response_count + 1
          /\ \A id \in ReqIds :
               (response_chan'[id] \in ResponsePayloads
                  /\ response_chan'[id] # response_chan[id])
               => /\ HandlerRuns
                  /\ response_chan'[id] \in PayloadsFor(id, response_events)]_vars
    /\ [](\A t \in Threads :
            requester[t].pc = "insert"
            => /\ requester[t].id < response_count
               /\ requester[t].id \notin response_map
               /\ handles[requester[t].id] = "none"
               /\ \A u \in Threads \ {t} :
                    requester[u].pc = "insert" => requester[u].id # requester[t].id)

C18_Witness ==
    /\ requester["t1"].id = 1
    /\ requester["t2"].id = 0
    /\ delivered = <<[source |-> FirstId, kind |-> ResponseName, data |-> EncodeResponse(1, "R2")],
                     [source |-> FirstId, kind |-> ResponseName, data |-> EncodeResponse(0, "R1")]>>
    /\ handles = [id \in ReqIds |-> "held"]
    /\ response_chan = [id \in ReqIds |-> IF id = 0 THEN "R1" ELSE "R2"]

\* Correlation id has a live waiter: a slot in the pending map whose Response
\* the caller still holds.
LiveWaiter(id) == id \in response_map /\ handles[id] = "held"

\* C19: a response whose correlation id has no live waiter (unknown, already
\* answered, or its Response dropped while the slot is pending) is dropped:
\* the step that processes it does not panic, fills no slot for that id, and
\* goes on to the other responses of the batch.
C19_NoLiveWaiterDropped ==
    [][HandlerRuns =>
        /\ host_pc' # "panicked"
        /\ \A id \in ReqIds :
             /\ ~LiveWaiter(id) => response_chan'[id] = response_chan[id]
             /\ (LiveWaiter(id) /\ FirstFor(id, response_events) # "none")
                => response_chan'[id] = FirstFor(id, response_events)]_vars

\* C20: try_recv is one step that returns at once.  On a handle whose
\* response has not arrived it returns Err with the same handle, still bound
\* to the same slot (so that the value is there for a later try_recv once the
\* response is processed); on a fulfilled handle it yields the value and
\* consumes the handle; a consumed handle stays consumed, is never polled
\* again and its value is gone, so a value is obtained at most once.
C20_TryRecvProtocol ==
    [][\A id \in ReqIds :
         /\ (Called("try_recv") /\ ret'.id = id)
            => /\ handles[id] = "held"
               /\ response_map' = response_map
               /\ IF response_chan[id] \in ResponsePayloads
                  THEN /\ ret'.res = response_chan[id]
                       /\ handles'[id] = "consumed"
                       /\ response_chan'[id] \notin ResponsePayloads
                  ELSE /\ ret'.res = "Err"
                       /\ handles'[id] = "held"
                       /\ response_chan'[id] = response_chan[id]
         /\ handles[id] = "consumed"
            => /\ handles'[id] = "consumed"
               /\ response_chan'[id] \notin ResponsePayloads
         /\ (handles[id] = "held" /\ handles'[id] # "held")
            => /\ Called("try_recv")
               /\ ret'.id = id
               /\ ret'.res \in ResponsePayloads]_vars

C20_Witness ==
    /\ ret = Ret("try_recv", 0, "Err", "-", {})
    /\ handles[0] = "held"
    /\ response_chan[0] = "empty"
    /\ 0 \in response_map
    /\ response_events = <<[source |-> FirstId, kind |-> ResponseName,
                            data |-> EncodeResponse(0, "R1")]>>

\* C21 as stated: responding through a Request whose source connection has
\* been removed from the table fails with ChannelClosed, puts nothing on the
\* wire and creates no table entry.
C21_RespondAfterRemovalChannelClosed ==
    [][(Called("respond") /\ ret'.id \notin established_connections)
        => /\ ret'.res = "ChannelClosed"
           /\ outgoing' = outgoing
           /\ wire' = wire
           /\ established_connections' = established_connections]_vars

\* C21: responding, with a response that serializes, through a Request whose
\* source connection has been removed from the table (by disconnect, stop or
\* the poll step) fails with SendError, puts nothing on the outgoing queue
\* or the wire, and leaves the table as it is.
C21_RespondAfterRemovalSendError ==
    [][(Called("respond") /\ ret'.id \notin established_connections
          /\ ret'.res # "Serialization")
        => /\ ret'.res = "SendError"
           /\ outgoing' = outgoing
           /\ wire' = wire
           /\ established_connections' = established_connections]_vars

C21_Witness ==
    /\ ret = Ret("respond", FirstId, "SendError", "-", {})
    /\ FirstId \notin established_connections
    /\ requests = <<>>

\* C22: the table never holds two connections created by connect(): a
\* connect() call made while an outbound connection exists disconnects it
\* first. (Under SpecDial every connection was created by connect().)
C22_AtMostOneOutbound == Cardinality(established_connections) <= 1

\* A connect task ends in failure: an attempt stops being outstanding and
\* the error queue grows.
ConnectFails ==
    /\ connecting' # connecting
    /\ connecting' \subseteq connecting
    /\ error_channel' # error_channel

\* C23: a connect attempt that fails posts exactly one Connection error to
\* the error queue and puts no socket on the new-connection queue; it is not
\* made again: attempts start only in connect() calls, and every attempt
\* ever started is outstanding, or has posted its one error, or has
\* produced its one socket.
C23_FailedConnectPostsOneError ==
    /\ [][ConnectFails
            => /\ error_channel' = Append(error_channel, "Connection")
               /\ new_connections' = new_connections
               /\ Cardinality(connecting') = Cardinality(connecting) - 1
               /\ connection_task_counts' = connection_task_counts]_vars
    /\ [][connecting' \ connecting # {}
            => /\ host_pc = "idle" /\ host_pc' = "connect"
               /\ connecting' \ connecting = {connection_task_counts}
               /\ connection_task_counts' = connection_task_counts + 1]_vars
    /\ [](Len(error_channel) + Len(new_connections) + connection_count
            + Cardinality(connecting) = connection_task_counts)

C23_Witness ==
    /\ error_channel = <<"Connection">>
    /\ connecting = {}
    /\ new_connections = <<>>
    /\ connection_count = 0
    /\ connection_task_counts = 1

\* C24: an error posted to the error queue by an accept or connect task is
\* eventually surfaced by a poll step as an Error notification, given that
\* the host keeps polling.
C24_ErrorsSurfaced ==
    (error_channel # <<>>)
        ~> (\E i \in DOMAIN network_events : network_events[i].type = "Error")

\* A connect task ends in success: an attempt stops being outstanding and
\* the error queue is left alone.
ConnectSucceeds ==
    /\ connecting' # connecting
    /\ connecting' \subseteq connecting
    /\ error_channel' = error_channel

ConnectedIn(events, c) ==
    Cardinality({i \in DOMAIN events : events[i] = [type |-> "Connected", id |-> c]})

\* C25: a connect attempt that succeeds puts exactly one socket on the
\* new-connection queue; the next poll step gives every queued socket its own
\* table entry under an id never given out before, and sends exactly one
\* Connected for each such id and for no other. Several attempts in flight
\* therefore end as distinct connections.
C25_ConnectEstablishes ==
    /\ [][ConnectSucceeds
            => new_connections' = Append(new_connections, "socket")]_vars
    /\ [][PollStarts
            => LET new == established_connections' \ established_connections
               IN  /\ Cardinality(new) = Len(new_connections)
                   /\ established_connections \subseteq established_connections'
                   /\ \A c \in new : c > connection_count /\ tasks[c] = NoTasks
                   /\ \A c \in ConnIds :
                        ConnectedIn(network_events', c) = IF c \in new THEN 1 ELSE 0
                   /\ Len(network_events') = Cardinality(new)
                   /\ new_connections' = <<>>]_vars

C25_Witness ==
    /\ connection_task_counts = 2
    /\ connecting = {}
    /\ established_connections = {1, 2}
    /\ network_events = <<[type |-> "Connected", id |-> 1],
                          [type |-> "Connected", id |-> 2]>>

\* recv_loop of the first connection takes eight bytes off the stream as a
\* frame's length.
ReadsLength ==
    /\ reader.pc = "header"
    /\ Len(stream) >= 8
    /\ stream' = SubSeq(stream, 9, Len(stream))

DeclaredLength == from_le_bytes(SubSeq(stream, 1, 8))

\* C26: when the peer's frame declares a length above max_packet_length, the
\* receive loop ends and forwards nothing, and one disconnect notice for the
\* connection is posted; the poll step's drain that finds the notice
\* removes the connection and sends Disconnected for it. A frame that
\* declares exactly max_packet_length is accepted: the loop goes on to read
\* that many bytes.
C26_OversizedFrameDisconnects ==
    /\ [][(ReadsLength /\ DeclaredLength > MaxPacketLength)
            => /\ tasks'[FirstId].recv = "finished"
               /\ incoming' = incoming
               /\ disconnected_connections'
                    = Append(disconnected_connections, FirstId)]_vars
    /\ [][(ReadsLength /\ DeclaredLength = MaxPacketLength)
            => /\ reader' = [pc |-> "body", length |-> MaxPacketLength]
               /\ tasks' = tasks
               /\ disconnected_connections' = disconnected_connections]_vars
    /\ [][(host_pc = "poll" /\ host_pc' = "idle"
             /\ FirstId \in Range(disconnected_connections))
            => /\ FirstId \notin established_connections'
               /\ \E i \in DOMAIN network_events' :
                    network_events'[i] = [type |-> "Disconnected", id |-> FirstId]]_vars
    /\ [](reader.pc = "oversized"
            => \/ FirstId \in Range(disconnected_connections)
               \/ FirstId \notin established_connections)

C26_Witness ==
    /\ reader.pc = "oversized"
    /\ writer.written = Frame([kind |-> <<1>>, data |-> <<>>])
                          \o Frame([kind |-> <<1>>, data |-> <<7>>])
    /\ incoming[FirstId] = <<[kind |-> <<1>>, data |-> <<>>]>>
    /\ disconnected_connections = <<FirstId>>
    /\ FirstId \in established_connections

RECURSIVE Frames(_)
Frames(packets) ==
    IF packets = <<>> THEN <<>> ELSE Frame(Head(packets)) \o Frames(Tail(packets))

\* C27: whatever packets of at most max_packet_length bytes send_loop has
\* drained and however the transport split the writes and the reads, the
\* bytes written are the packets' frames (8-byte little-endian length, then
\* that many bytes), recv_loop has forwarded the first of these packets in
\* their order, and it has not given up on the stream.
C27_WireRoundTrip ==
    (\A i \in DOMAIN writer.drained :
        Len(Serialize(writer.drained[i])) <= MaxPacketLength)
    => /\ writer.written = Frames(writer.drained)
       /\ Len(incoming[FirstId]) <= Len(writer.drained)
       /\ incoming[FirstId] = SubSeq(writer.drained, 1, Len(incoming[FirstId]))
       /\ reader.pc \in {"header", "body"}

\* The receive loop of connection c returns.
RecvExits(c) == tasks[c].recv = "running" /\ tasks'[c].recv = "finished"

Notices(c) ==
    Cardinality({i \in DOMAIN disconnected_connections : disconnected_connections[i] = c})

\* The second loop of the poll step runs with a notice for c in the queue.
DrainsNoticeOf(c) ==
    /\ host_pc = "poll" /\ host_pc' = "idle"
    /\ c \in Range(disconnected_connections)

C29_RemovalCancelsTasks ==
    /\ [](\A c \in ConnIds :
            (tasks[c] # NoTasks /\ c \notin established_connections)
            => /\ \A f \in {"recv", "demux", "send"} : tasks[c][f] # "running"
               /\ outgoing[c] = <<>>)
    /\ [](\A c \in established_connections :
            \A f \in {"recv", "demux", "send"} :
                tasks[c][f] \notin {"aborted", "dropped"})
    /\ [][\A c \in established_connections :
            c \notin established_connections'
            => /\ \A f \in {"recv", "demux", "send"} :
                    tasks[c][f] = "running"
                        => tasks'[c][f] \in {"aborted", "dropped"}
               /\ ~QueueOpen(c)']_vars

C29_Witness ==
    /\ established_connections = {2}
    /\ tasks[1] = ConnectionStop(SpawnedTasks)
    /\ tasks[2] = SpawnedTasks
    /\ ret.op = "disconnect"

\* C30: outside the connect() call that is recording its handle, the side
\* table holds exactly the keys of the connect attempts still outstanding:
\* an attempt is in it while it runs and gone once it has completed, so it
\* is empty once every attempt has completed.
C30_SideTableTracksAttempts ==
    host_pc # "connect" => connection_tasks = connecting

\* C31: a stop() on a listening manager empties the new-connection queue
\* without giving any of its sockets an id or a table entry; and a poll step
\* gives ids, table entries and Connected notifications to the sockets of
\* the queue and to nothing else, so a socket discarded by stop() is never
\* established.
C31_StopDiscardsQueuedSockets ==
    /\ [][(Called("stop") /\ server_handle # {})
            => /\ new_connections' = <<>>
               /\ connection_count' = connection_count
               /\ established_connections' = {}
               /\ network_events' = <<>>]_vars
    /\ [][PollStarts
            => /\ connection_count' = connection_count + Len(new_connections)
               /\ Len(network_events') = Len(new_connections)
               /\ Cardinality(established_connections' \ established_connections)
                    = Len(new_connections)]_vars

\* A connect attempt has put its socket on the queue, and a stop() on the
\* listening manager has discarded it: no id was ever given out.
C31_Witness ==
    /\ ret = Ret("stop", 0, "Ok", "stopped", {})
    /\ connection_task_counts = 1
    /\ connecting = {}
    /\ error_channel = <<>>
    /\ new_connections = <<>>
    /\ connection_count = 0

\* C32: a poll step that follows a stop() on a listening manager, with no
\* other call of the host in between, sends no Connected notification and
\* inserts no table entry, whatever the tasks did in the meantime.
C32_NoConnectionAfterStop ==
    [][(ret = Ret("stop", 0, "Ok", "stopped", ret.removed) /\ PollStarts)
        => /\ network_events' = <<>>
           /\ established_connections' = established_connections]_vars

\* C33: a stop() on a listening manager leaves no pending entry under any
\* kind and delivers none; and a drain delivers only entries that are
\* pending when it runs. So nothing demuxed before the stop() is delivered
\* after it.
C33_StopEmptiesPendingQueues ==
    /\ [][(Called("stop") /\ server_handle # {})
            => /\ \A k \in DOMAIN recv_message_map' : recv_message_map'[k] = <<>>
               /\ delivered' = delivered]_vars
    /\ [][delivered' # delivered
            => \E k \in DOMAIN recv_message_map :
                 /\ recv_message_map[k] # <<>>
                 /\ delivered' = delivered \o Deserialized(k, recv_message_map[k])]_vars

\* stop() has discarded a pending request that no drain had delivered.
C33_Witness ==
    /\ ret.op = "stop" /\ ret.branch = "stopped"
    /\ discarded.stop = 1
    /\ delivered = <<>>

\* C34: the set of registered kind tags is never changed by stop(),
\* listen(), connect(), disconnect() or the poll step: every kind registered
\* at startup has its registry entry at every state.
C34_RegisteredKindsKept == DOMAIN recv_message_map = RegisteredKinds

\* C35: Disconnected(id) is sent only for an id for which Connected(id) was
\* sent before. An id has tasks exactly from the poll step that sent its
\* Connected; every disconnect notice and every Disconnected names such an
\* id, and a Connected of the same poll step stands before it.
C35_DisconnectedAfterConnected ==
    /\ [][PollStarts
            => \A c \in ConnIds :
                 (tasks[c] = NoTasks /\ tasks'[c] # NoTasks)
                 <=> ConnectedIn(network_events', c) = 1]_vars
    /\ [][\A c \in ConnIds : (tasks[c] = NoTasks /\ tasks'[c] # NoTasks)
            => PollStarts]_vars
    /\ [](\A c \in Range(disconnected_connections) : tasks[c] # NoTasks)
    /\ [](\A i \in DOMAIN network_events :
            network_events[i].type = "Disconnected"
            => /\ tasks[network_events[i].id] # NoTasks
               /\ \A j \in DOMAIN network_events :
                    network_events[j] = [type |-> "Connected",
                                         id |-> network_events[i].id]
                    => j < i)

\* The receive loop of connection 1 ended during the poll step that
\* established it: that step sent Connected(1), then Disconnected(1).
C35_Witness ==
    network_events = <<[type |-> "Connected", id |-> 1],
                       [type |-> "Disconnected", id |-> 1]>>

\* C36: at most one Disconnected is ever sent for an id. A disconnect notice
\* for c is posted only by the exit of c's receive loop, which happens at
\* most once (stop() and disconnect(c) post none and never restart the
\* loop); the queue never holds two notices for c; and the second loop of
\* the poll step sends one Disconnected for each notice it takes.
C36_AtMostOneDisconnected ==
    /\ [][\A c \in ConnIds : Notices(c)' > Notices(c) => RecvExits(c)]_vars
    /\ [][\A c \in ConnIds :
            tasks[c].recv \notin {"none", "running"}
            => tasks'[c].recv = tasks[c].recv]_vars
    /\ [](\A c \in ConnIds : Notices(c) <= 1)
    /\ [](\A c \in ConnIds :
            Cardinality({i \in DOMAIN network_events :
                network_events[i] = [type |-> "Disconnected", id |-> c]}) <= 1)
    /\ [][(host_pc = "poll" /\ host_pc' = "idle")
            => \A c \in ConnIds :
                 /\ Notices(c)' = 0
                 /\ Cardinality({i \in DOMAIN network_events' :
                        network_events'[i] = [type |-> "Disconnected", id |-> c]})
                      = Notices(c)]_vars

\* The receive loop of connection 1 ended, the host then called
\* disconnect(1), and the poll step sent Disconnected(1) once.
C36_Witness ==
    /\ tasks[1] = [recv |-> "finished", demux |-> "aborted", send |-> "aborted"]
    /\ ret.op = "poll" /\ host_pc = "idle"
    /\ network_events = <<[type |-> "Disconnected", id |-> 1]>>

\* C37: if a connection that was announced with Connected(id) leaves the
\* table, by disconnect(id), by stop() or by the exit of its receive loop,
\* then at some time a poll step sends Disconnected(id), given that the host
\* keeps polling.
C37_RemovedIsAnnounced ==
    \A c \in ConnIds :
        <>(tasks[c] # NoTasks /\ c \notin established_connections)
        => <>(\E i \in DOMAIN network_events :
                network_events[i] = [type |-> "Disconnected", id |-> c])

\* C38: a send_request that returns an error leaves the pending-response
\* map as it was.
C38_FailedRequestLeavesMap ==
    [][\A t \in Threads :
         (requester[t].pc = "insert" /\ requester'[t].pc = "idle"
            /\ ret'.op = "send_request" /\ ret'.res # "Ok")
         => response_map' = response_map]_vars

\* C39: create_request_handlers makes one Request handle, in order, for
\* every delivered request whose source is in the table at that time, with
\* the request's correlation id and its source, and none for a request whose
\* source is no longer in the table; a respond through a handle whose
\* source's queue is open puts the response on that connection's outgoing
\* queue.
C39_OneHandlePerLiveRequest ==
    /\ [][(request_events # <<>> /\ request_events' = <<>>)
            => LET live == SelectSeq(request_events,
                             LAMBDA ev : ev.source \in established_connections)
                   new  == SubSeq(requests', Len(requests) + 1, Len(requests'))
               IN  /\ SubSeq(requests', 1, Len(requests)) = requests
                   /\ Len(new) = Len(live)
                   /\ \A i \in DOMAIN live :
                        /\ new[i].source = live[i].source
                        /\ EncodeRequest(new[i].request_id) = live[i].data]_vars
    /\ [][(Called("respond") /\ ret'.res = "Ok")
            => /\ Len(outgoing'[ret'.id]) = Len(outgoing[ret'.id]) + 1
               /\ \A c \in ConnIds \ {ret'.id} : outgoing'[c] = outgoing[c]]_vars

\* Two requests of connection 1 were delivered and each has its handle.
C39_Witness ==
    /\ request_events = <<>>
    /\ Len(delivered) = 2
    /\ requests = <<[source |-> FirstId, request_id |-> 1],
                    [source |-> FirstId, request_id |-> 0]>>
    /\ FirstId \in established_connections
\* --------------------------------------------------------------- C40
\* C40: packets enqueued on one connection by successful send_message,
\* broadcast and respond calls join the tail of its outgoing queue, and the
\* send loop takes the queue's head: what it writes is that head, appended to
\* what it wrote before.  A packet that does not encode is taken from the
\* head and not written, and the loop goes on.  The loop stops running only
\* when the connection leaves the table (its queue is closed) or a write
\* fails.
C40_SendLoopKeepsOrder ==
    [][\A c \in ConnIds :
          /\ Len(outgoing'[c]) > Len(outgoing[c])
                => /\ Len(outgoing'[c]) = Len(outgoing[c]) + 1
                   /\ SubSeq(outgoing'[c], 1, Len(outgoing[c])) = outgoing[c]
                   /\ wire'[c] = wire[c]
          /\ wire'[c] # wire[c]
                => /\ outgoing[c] # <<>>
                   /\ wire'[c] = Append(wire[c], Head(outgoing[c]))
                   /\ outgoing'[c] = Tail(outgoing[c])
                   /\ tasks'[c].send = "running"
          /\ (/\ tasks[c].send = "running"
              /\ tasks'[c].send = "running"
              /\ Len(outgoing'[c]) < Len(outgoing[c]))
                => /\ outgoing'[c] = Tail(outgoing[c])
                   /\ wire'[c] \in {wire[c], Append(wire[c], Head(outgoing[c]))}
          /\ (tasks[c].send = "running" /\ tasks'[c].send # "running")
                => \/ /\ c \in established_connections
                      /\ c \notin established_connections'
                   \/ /\ tasks'[c].send = "finished"
                      /\ outgoing[c] # <<>>
                      /\ wire'[c] = wire[c]]_vars

\* A send_message packet and then a response were enqueued on the first
\* connection and both are on the wire, in that order.
C40_Witness ==
    /\ ret.op = "respond"
    /\ ret.res = "Ok"
    /\ Len(wire[FirstId]) = 2
    /\ wire[FirstId][1].kind = "K1"
    /\ wire[FirstId][2].kind = ResponseName

====
